---- MODULE Spec2Model ----
(***************************************************************************)
(* Generation pipeline of the manual generator: the variable-resolution    *)
(* cascade (generation/services/variables.py), the render-time merge and   *)
(* the per-output orchestration (generation/services/execution.py) and the *)
(* plan builder (generation/services/planning.py).                         *)
(*                                                                         *)
(* Python strings are sequences of one-character strings, so that          *)
(* str.strip() is computed and not assumed.  A dict is a function whose    *)
(* DOMAIN is its key set; dict.get is Get.                                 *)
(***************************************************************************)
EXTENDS Integers, Sequences, FiniteSets, TLC

VARIABLES
    db,               \* RagVariableValue rows of the manual: token -> row
    rpc,              \* position of resolve_required_variables
    required_tokens,  \* its argument required_tokens
    customer_profile, \* its argument customer_profile
    human_overrides,  \* its argument human_overrides
    keys,             \* RagVariableKey rows read at the start of the call
    existing,         \* RagVariableValue rows read at the start of the call
    ri,               \* number of tokens of required_tokens already processed
    values,           \* the local dict values
    source_by_token,  \* the local dict source_by_token
    steps,            \* per processed token: the branch taken and the row written
    db0,              \* the rows as they were when the call started
    base_values,      \* _build_effective_map: argument base_values
    sources,          \* _build_effective_map: argument source_by_token
    global_overrides, \* _build_effective_map: argument global_overrides
    file_overrides,   \* _build_effective_map: argument file_overrides
    merged,           \* _build_effective_map: the returned dict
    mpc,              \* position of the _build_effective_map call
    templates,        \* ids of the RagAsset rows of the manual with role TEMPLATE
    ppc,              \* position of build_generation_plan
    plan_selected,    \* build_generation_plan: argument selected_asset_ids
    fallback,         \* build_generation_plan: the deterministic plan
    payload,          \* build_generation_plan: response.payload of chat_json
    chat_replies,     \* the completions chat_json received for the planning prompt
    plan,             \* build_generation_plan: the returned plan
    epc,              \* position of execute_generation
    run_profile,      \* execute_generation: argument customer_profile
    file_overrides_by_file, \* execute_generation: argument file_overrides_by_file
    selected_ids,     \* execute_generation: set(selected_asset_ids or [])
    run_db0,          \* the rows when the transaction of the run began
    ei,               \* number of plan outputs already processed
    file_results,     \* execute_generation: file_results
    entry_log,        \* per processed plan output: skipped, generated or error
    events,           \* the events emit_event wrote for the run, in order
    generated,        \* execute_generation: generated
    failed,           \* execute_generation: failed
    skipped,          \* execute_generation: skipped
    report,           \* execute_generation: the returned report
    split_text,       \* split_text_deterministic: argument text
    split_config,     \* split_text_deterministic: argument config
    split_first,      \* the chunks the first call returned
    split_second,     \* the chunks the second call returned
    spc,              \* number of split_text_deterministic calls made
    ex_text,          \* extract_placeholder_tokens: argument text
    ex_tokens,        \* what extract_placeholder_tokens returned
    ex_counts,        \* what count_placeholder_tokens returned
    xpc,              \* position of the two calls
    rp_text,          \* replace_placeholders: argument text
    rp_values,        \* replace_placeholders: argument values
    rp_result,        \* replace_placeholders: the returned (text, unresolved)
    hpc,              \* position of the replace_placeholders call
    source_archive,   \* apply_placeholders_to_ooxml_bytes: the members of source_bytes
    archive_ext,      \* apply_placeholders_to_ooxml_bytes: argument ext
    archive_values,   \* apply_placeholders_to_ooxml_bytes: argument values
    applied,         \* apply_placeholders_to_ooxml_bytes: the returned pair
    apc,              \* position of the apply_placeholders_to_ooxml_bytes call
    vector_rows,      \* rrf_merge: argument vector_rows
    fts_rows,         \* rrf_merge: argument fts_rows
    top_n,            \* rrf_merge: argument top_n
    merged_first,     \* the rows the first rrf_merge call returned
    merged_second,    \* the rows the second rrf_merge call returned
    qpc,              \* number of rrf_merge calls made
    ph_table,         \* the rows of RagTemplatePlaceholder
    chunk_table,      \* the rows of RagDocumentChunk
    ph_before,        \* ph_table before the last index_existing_asset call
    rows_before,      \* chunk_table before the last index_existing_asset call
    indexed_text,     \* the text last given to _store_placeholders, or None
    known_keys,       \* the RagVariableKey tokens at that call
    index_config,     \* the chunking configuration of the last call
    index_force,      \* the force flag of the last call
    index_rows,       \* the chunk ids the last call returned, or that it raised
    ids_before,       \* index_rows of the call before the last
    repeated,         \* the last call had the text and configuration of the
                      \* call before it, which had returned
    ingest_docs,      \* ingest_package_for_manual: the texts of the manual's assets
    ingest_force,     \* argument force
    tx_chunks,        \* chunk_table when the transaction began
    tx_placeholders,  \* ph_table when the transaction began
    asset_i,          \* position of the loop over all_assets
    extraction_errors, \* stats.extraction_errors
    chunks_total,     \* stats.chunks_total
    processed_chunks, \* the ids of processed_chunks
    ipc,              \* position of the ingest_package_for_manual call
    abort_cause,      \* what made the call raise
    chat_retries,     \* chat_json: argument retries
    chat_requests,    \* the number of completion requests issued
    chat_responses,   \* what each request gave, in order
    chat_result,      \* what the call returned
    kpc,              \* position of the chat_json call
    runs,             \* per concurrent execution: the frame of its
                      \* resolve_required_variables call and its open transaction
    write_log,        \* the loop passes of the concurrent executions, in order
    schema,           \* the RagVariableKey rows of the package
    round_db0,        \* the committed rows before the concurrent executions began
    run_table,        \* the RagRun rows given to generate_manual_task: status, metrics
    manual_status,    \* RagManual.status of the manual
    task_run,         \* the run of the current or last generate_manual_task call
    task_outcome,     \* what execute_generation did in that call
    tpc,              \* position of generate_manual_task
    task_raised       \* the call ended by raising

rvars == <<db, rpc, required_tokens, customer_profile, human_overrides, keys,
           existing, ri, values, source_by_token, steps, db0>>

mvars == <<base_values, sources, global_overrides, file_overrides, merged, mpc>>

pvars == <<templates, ppc, plan_selected, fallback, payload, chat_replies, plan>>

evars == <<epc, run_profile, file_overrides_by_file, selected_ids, run_db0, ei,
           file_results, entry_log, events, generated, failed, skipped, report>>

\* the state of the generation calls
gvars == <<rvars, mvars, pvars, evars>>

cvars == <<split_text, split_config, split_first, split_second, spc>>

\* the state of the indexing, rendering and retrieval calls
hvars == <<rp_text, rp_values, rp_result, hpc, ex_text, ex_tokens, ex_counts, xpc>>

avars == <<source_archive, archive_ext, archive_values, applied, apc>>

qvars == <<vector_rows, fts_rows, top_n, merged_first, merged_second, qpc>>

dvars == <<ph_table, chunk_table, ph_before, rows_before, indexed_text, known_keys,
           index_config, index_force, index_rows, ids_before, repeated>>

index_call_vars == <<ph_before, rows_before, indexed_text, known_keys, index_config,
                     index_force, index_rows, ids_before, repeated>>

ivars == <<ingest_docs, ingest_force, tx_chunks, tx_placeholders, asset_i,
           extraction_errors, chunks_total, processed_chunks, ipc, abort_cause>>

kvars == <<chat_retries, chat_requests, chat_responses, chat_result, kpc>>

wvars == <<runs, write_log, schema, round_db0>>

\* the groups added after kvars
tvars == <<run_table, manual_status, task_run, task_outcome, tpc, task_raised>>

lvars == <<wvars, tvars>>

zvars == <<kvars, lvars>>

xvars == <<cvars, hvars, avars, qvars, dvars, ivars, zvars>>

vars == <<gvars, xvars>>

----------------------------------------------------------------------------
(* Bounds *)

\* longest required_tokens list of one call
MaxReq == 2

\* longest outputs list of an AI planning payload
MaxOutputs == 2

\* longest text given to split_text_deterministic
MaxText == 5

\* largest target_chars and overlap_chars of a ChunkConfig
MaxTarget == 2

\* most pieces a text given to replace_placeholders is made of
MaxPieces == 3

\* most members of an archive given to apply_placeholders_to_ooxml_bytes
MaxMembers == 2

\* longest result list given to rrf_merge, and largest top_n
MaxRows == 3

\* the larger target_chars of the chunking configurations of an indexing
DocTarget == 8

\* largest retries given to chat_json
MaxRetries == 3

\* most generate_manual_task calls for the manual, one RagRun each
MaxRuns == 2

\* most assets of the manual given to ingest_package_for_manual
MaxDocs == 2

\* the length of the token column of RagTemplatePlaceholder (max_length=255 in
\* rag/models.py line 111), scaled to the tokens of the model
TokenMaxLength == 2

----------------------------------------------------------------------------
(* Strings and dicts *)

SP == " "
NL == "\n"

\* the characters str.strip() removes
Whitespace == {SP, NL}

RECURSIVE lstrip(_)
lstrip(s) == IF s # <<>> /\ Head(s) \in Whitespace THEN lstrip(Tail(s)) ELSE s

RECURSIVE rstrip(_)
rstrip(s) ==
    IF s # <<>> /\ s[Len(s)] \in Whitespace THEN rstrip(SubSeq(s, 1, Len(s) - 1))
    ELSE s

\* str.strip()
strip(s) == rstrip(lstrip(s))

\* Python None, and any value that is not a str
None == <<"<None>">>

\* isinstance(x, str) and x.strip()
IsNonBlankStr(x) == x # None /\ strip(x) # <<>>

EmptyDict == <<>>

\* dict.get(k)
Get(d, k) == IF k \in DOMAIN d THEN d[k] ELSE None

\* d[k] = v
Put(d, k, v) == (k :> v) @@ d

Tokens == {"COMPANY_NAME", "SCOPE"}

\* str.lower() on the tokens of the model
lower(t) == IF t = "COMPANY_NAME" THEN "company_name" ELSE "scope"

----------------------------------------------------------------------------
(* rag/models.py: RagVariableValue, RagVariableKey *)

CUSTOMER_INPUT == "CUSTOMER_INPUT"
DEFAULT == "DEFAULT"
AI_INFERRED == "AI_INFERRED"
AI_DRAFTED == "AI_DRAFTED"
HUMAN_OVERRIDE == "HUMAN_OVERRIDE"

AI_INFER == "AI_INFER"
AI_DRAFT == "AI_DRAFT"
DETERMINISTIC == "DETERMINISTIC"

\* no RagVariableValue row for the token
NoRow == [value |-> <<>>, source |-> "NONE", confidence |-> 0]

\* confidence is kept in hundredths: 1.0 is 100
Row(value, source, confidence) ==
    [value |-> value, source |-> source, confidence |-> confidence]

\* no RagVariableKey row for the token
NoKey == [default_value |-> None, generation_policy |-> "NONE"]

\* existing.get(token), keys.get(token)
GetRow(d, k) == IF k \in DOMAIN d THEN d[k] ELSE NoRow
GetKey(d, k) == IF k \in DOMAIN d THEN d[k] ELSE NoKey

----------------------------------------------------------------------------
(* generation/services/variables.py *)

\* _upsert_variable_value: update_or_create keyed by (manual, token)
upsert_variable_value(rows, token, value, source, confidence) ==
    [rows EXCEPT ![token] = Row(value, source, confidence)]

\* _profile_value
profile_value(profile, token) ==
    LET direct == Get(profile, token)
        lowered == Get(profile, lower(token))
    IN  IF IsNonBlankStr(direct) THEN strip(direct)
        ELSE IF IsNonBlankStr(lowered) THEN strip(lowered)
        ELSE None

\* what the completion service did for one token: chat_json raised (or the
\* payload could not be read), or it returned the raw value and confidence
AiReplies ==
    { [ok |-> FALSE, value |-> <<>>, confidence |-> 0],
      [ok |-> TRUE, value |-> <<SP>>, confidence |-> 0],
      [ok |-> TRUE, value |-> <<SP, "a">>, confidence |-> 70] }

\* _infer_with_ai / _draft_with_ai: str(item.get("value", "")).strip()
ai_value(reply) == strip(reply.value)

existing_is_customer_input_wrong_source(existing_value) ==
    existing_value # NoRow /\ existing_value.source = HUMAN_OVERRIDE

\* line 151: existing_value and existing_value.source == CUSTOMER_INPUT
existing_is_customer_input(existing_value) ==
    existing_value # NoRow /\ existing_value.source = CUSTOMER_INPUT

existing_is_human_override_dropped(existing_value) == FALSE

\* line 170: existing_value and existing_value.source == HUMAN_OVERRIDE
existing_is_human_override(existing_value) ==
    existing_value # NoRow /\ existing_value.source = HUMAN_OVERRIDE

\* line 191: key and key.default_value and key.default_value.strip()
has_default(key) == key # NoKey /\ IsNonBlankStr(key.default_value)

\* the outcome of one pass of the loop body for one token
Outcome(token, rule, resolved, value, source, write, ai) ==
    [token |-> token, rule |-> rule, resolved |-> resolved, value |-> value,
     source |-> source, write |-> write, ai |-> ai]

\* the AI step without its `if value:` test
ai_step_stores_empty(token, key, reply) ==
    LET policy == key.generation_policy
        called == IF policy = AI_INFER THEN "infer"
                  ELSE IF policy = AI_DRAFT THEN "draft" ELSE "none"
        source == IF policy = AI_INFER THEN AI_INFERRED
                  ELSE IF policy = AI_DRAFT THEN AI_DRAFTED ELSE DEFAULT
        value == IF called = "none" THEN <<>> ELSE ai_value(reply)
    IN  IF called # "none" /\ ~reply.ok
        THEN Outcome(token, "ai_failed", FALSE, <<>>, "NONE", NoRow, called)
        ELSE Outcome(token, "ai_stored", TRUE, value, source,
                     Row(value, source, reply.confidence), called)

\* every policy sent to the completion service
ai_call_ignores_policy(policy) ==
    IF policy = AI_DRAFT THEN "draft" ELSE "infer"

\* lines 214-232: _infer_with_ai (one chat_json call) for AI_INFER,
\* _draft_with_ai (retrieve_context, then one chat_json call) for AI_DRAFT,
\* neither for any other policy
ai_call(policy) ==
    IF policy = AI_INFER THEN "infer"
    ELSE IF policy = AI_DRAFT THEN "draft" ELSE "none"

\* lines 213-258: the try block around the AI step; an exception of the step
\* is caught at line 252, so no outcome of it is "raised"
ai_step(token, key, reply) ==
    LET policy == key.generation_policy
        called == ai_call(policy)
        source == IF policy = AI_INFER THEN AI_INFERRED
                  ELSE IF policy = AI_DRAFT THEN AI_DRAFTED ELSE DEFAULT
        value == IF called = "none" THEN <<>> ELSE ai_value(reply)
    IN  IF called # "none" /\ ~reply.ok
        THEN Outcome(token, "ai_failed", FALSE, <<>>, "NONE", NoRow, called)
        ELSE IF value # <<>>
        THEN Outcome(token, "ai_stored", TRUE, value, source,
                     Row(value, source, reply.confidence), called)
        ELSE Outcome(token, "ai_empty", FALSE, <<>>, "NONE", NoRow, called)

\* lines 148-258: the loop body of resolve_required_variables for one token
resolve_token(token, existing_value, profile, overrides, key, reply) ==
    LET pv == profile_value(profile, token)
        override_value == Get(overrides, token)
    IN  IF existing_is_customer_input(existing_value)
        THEN Outcome(token, "existing_customer_input", TRUE, existing_value.value,
                     existing_value.source, NoRow, "none")
        ELSE IF pv # None
        THEN Outcome(token, "profile", TRUE, pv, CUSTOMER_INPUT,
                     Row(pv, CUSTOMER_INPUT, 100), "none")
        ELSE IF existing_is_human_override(existing_value)
        THEN Outcome(token, "existing_human_override", TRUE, existing_value.value,
                     existing_value.source, NoRow, "none")
        ELSE IF IsNonBlankStr(override_value)
        THEN Outcome(token, "override", TRUE, strip(override_value), HUMAN_OVERRIDE,
                     Row(strip(override_value), HUMAN_OVERRIDE, 100), "none")
        ELSE IF has_default(key)
        THEN Outcome(token, "default", TRUE, key.default_value, DEFAULT,
                     Row(key.default_value, DEFAULT, 100), "none")
        ELSE IF key = NoKey
        THEN Outcome(token, "unknown_key", FALSE, <<>>, "NONE", NoRow, "none")
        ELSE ai_step(token, key, reply)

\* the rows after the pass: the upsert of the branch, if it has one
rows_after(rows, o) ==
    IF o.write = NoRow THEN rows
    ELSE upsert_variable_value(rows, o.token, o.write.value, o.write.source,
                               o.write.confidence)

\* values[token] = ..., source_by_token[token] = ...
values_after(vals, o) == IF o.resolved THEN Put(vals, o.token, o.value) ELSE vals
sources_after(srcs, o) == IF o.resolved THEN Put(srcs, o.token, o.source) ELSE srcs

----------------------------------------------------------------------------
(* The inputs of a call *)

Range(s) == {s[i] : i \in DOMAIN s}

SeqsUpTo(S, n) == UNION {[1..k -> S] : k \in 0..n}

ReqLists == SeqsUpTo(Tokens, MaxReq)

\* The entries a call may carry for a token.  COMPANY_NAME takes every shape the
\* loop body tells apart; SCOPE, which is there for the passes before and after
\* it, takes fewer.

\* what the profile holds under a token and under its lower-case form
ProfileEntries(t) ==
    IF t = "COMPANY_NAME"
    THEN { EmptyDict,
           (t :> <<SP, "a">>) @@ (lower(t) :> <<"b">>),
           (t :> <<SP>>) @@ (lower(t) :> <<"b">>),
           (t :> <<SP>>) }
    ELSE { EmptyDict, (lower(t) :> <<"b", SP>>) }

OverrideEntries(t) ==
    IF t = "COMPANY_NAME"
    THEN { EmptyDict, (t :> <<SP>>), (t :> <<SP, "a">>), (t :> <<"b">>) }
    ELSE { EmptyDict, (t :> <<"b">>) }

KeyEntries(t) ==
    IF t = "COMPANY_NAME"
    THEN { EmptyDict,
           (t :> [default_value |-> <<"a", SP>>, generation_policy |-> AI_INFER]),
           (t :> [default_value |-> None, generation_policy |-> AI_INFER]),
           (t :> [default_value |-> <<SP>>, generation_policy |-> AI_DRAFT]),
           (t :> [default_value |-> <<>>, generation_policy |-> DETERMINISTIC]) }
    ELSE { EmptyDict,
           (t :> [default_value |-> <<"d">>, generation_policy |-> DETERMINISTIC]),
           (t :> [default_value |-> None, generation_policy |-> AI_DRAFT]) }

\* the entries for token t in a dict read for the tokens of T: nothing else of
\* the dict is read by the call
EntriesOver(T, t, S) == IF t \in T THEN S ELSE {EmptyDict}

ProfileDicts(T) ==
    {a @@ b : a \in EntriesOver(T, "COMPANY_NAME", ProfileEntries("COMPANY_NAME")),
              b \in EntriesOver(T, "SCOPE", ProfileEntries("SCOPE"))}

OverrideDicts(T) ==
    {a @@ b : a \in EntriesOver(T, "COMPANY_NAME", OverrideEntries("COMPANY_NAME")),
              b \in EntriesOver(T, "SCOPE", OverrideEntries("SCOPE"))}

KeyDicts(T) ==
    {a @@ b : a \in EntriesOver(T, "COMPANY_NAME", KeyEntries("COMPANY_NAME")),
              b \in EntriesOver(T, "SCOPE", KeyEntries("SCOPE"))}

\* line 140: the rows of the manual for the required tokens
existing_rows(rows, required) ==
    [t \in {u \in Range(required) : rows[u] # NoRow} |-> rows[t]]

----------------------------------------------------------------------------
(* generation/services/planning.py: plans and AI planning payloads *)

\* a JSON value where a list is expected: a list, or anything else (missing too)
JsonList(items) == [is_list |-> TRUE, items |-> items]
NotAList == [is_list |-> FALSE, items |-> <<>>]

\* the template RagAsset rows a manual may hold, in order of package_rel_path
\* (a path is the sequence of its segments: a/x.docx, b.docx)
AllTemplates ==
    << [id |-> "t1", package_rel_path |-> <<"a", "x.docx">>],
       [id |-> "t2", package_rel_path |-> <<"b.docx">>] >>

TemplateIds == {AllTemplates[i].id : i \in DOMAIN AllTemplates}

\* the RagTemplatePlaceholder rows of a template: token -> status
placeholders(id) ==
    IF id = "t1" THEN ("COMPANY_NAME" :> "KNOWN")
    ELSE ("COMPANY_NAME" :> "KNOWN") @@ ("SCOPE" :> "UNKNOWN")

\* sorted(set of tokens)
sorted(S) ==
    (IF "COMPANY_NAME" \in S THEN <<"COMPANY_NAME">> ELSE <<>>)
        \o (IF "SCOPE" \in S THEN <<"SCOPE">> ELSE <<>>)

\* the playbook's replacement_mode (default SIMPLE_TEXT)
PlaybookMode == "SIMPLE_TEXT"

\* an item of an outputs list: a JSON object with these keys (a missing
\* template_asset_id is "", a missing output_rel_path is <<>>), or no object
Entry(id, path, mode) ==
    [is_dict |-> TRUE, template_asset_id |-> id, output_rel_path |-> path,
     strategies |-> mode]
NonDictEntry ==
    [is_dict |-> FALSE, template_asset_id |-> "", output_rel_path |-> <<>>,
     strategies |-> ""]

\* lines 26-35: the output entry of one template asset
deterministic_output(asset) ==
    Entry(asset.id, <<"outputs", asset.package_rel_path[Len(asset.package_rel_path)]>>,
          PlaybookMode)

\* lines 59-62: the template assets of the manual, restricted to the selection
\* when one is given, ordered by package_rel_path
template_assets(tpl, selected_asset_ids) ==
    SelectSeq(AllTemplates,
              LAMBDA a : /\ a.id \in tpl
                         /\ selected_asset_ids # <<>> => a.id \in Range(selected_asset_ids))

RECURSIVE MapOutputs(_)
MapOutputs(assets) ==
    IF assets = <<>> THEN <<>>
    ELSE <<deterministic_output(Head(assets))>> \o MapOutputs(Tail(assets))

\* lines 13-41: _deterministic_plan
deterministic_plan(assets) ==
    LET required == UNION {DOMAIN placeholders(assets[i].id) : i \in DOMAIN assets}
        unknown == UNION {{t \in DOMAIN placeholders(assets[i].id) :
                               placeholders(assets[i].id)[t] = "UNKNOWN"} :
                          i \in DOMAIN assets}
    IN  [outputs |-> JsonList(MapOutputs(assets)),
         required_tokens |-> JsonList(sorted(required)),
         unknown_tokens |-> JsonList(sorted(unknown))]

validate_plan_keeps_token_fields(pl, fb) ==
    IF ~pl.outputs.is_list THEN fb ELSE pl

\* lines 44-53: _validate_plan (chat_json only returns JSON objects, so the
\* payload is a dict)
validate_plan(pl, fb) ==
    IF ~pl.outputs.is_list THEN fb
    ELSE [outputs |-> pl.outputs,
          required_tokens |-> IF pl.required_tokens.is_list THEN pl.required_tokens
                              ELSE fb.required_tokens,
          unknown_tokens |-> IF pl.unknown_tokens.is_list THEN pl.unknown_tokens
                             ELSE fb.unknown_tokens]

\* the items an AI payload may list as outputs: the entry of t1 with another
\* strategy, the entry of t2 sent to another path, an entry without
\* template_asset_id, an entry naming no template of the manual (a UUID of no
\* row; a string that is no UUID), and an item that is no object
AiEntries ==
    { Entry("t1", <<"outputs", "x.docx">>, "RICH_TEXT"),
      Entry("t2", <<"..", "..", "etc", "b.docx">>, PlaybookMode),
      Entry("", <<"outputs", "x.docx">>, PlaybookMode),
      Entry("t9", <<>>, PlaybookMode),
      Entry("not-a-uuid", <<>>, PlaybookMode),
      NonDictEntry }

\* the token fields of an AI payload: required_tokens and unknown_tokens
AiTokenFields ==
    { <<NotAList, NotAList>>,
      <<JsonList(<<>>), JsonList(<<>>)>>,
      <<JsonList(<<"SCOPE", "SCOPE">>), NotAList>> }

\* the JSON objects chat_json may return for the planning prompt
AiPayloads ==
    { [outputs |-> o, required_tokens |-> f[1], unknown_tokens |-> f[2]] :
        o \in {NotAList} \cup {JsonList(l) : l \in SeqsUpTo(AiEntries, MaxOutputs)},
        f \in AiTokenFields }

NoPlan == [outputs |-> NotAList, required_tokens |-> NotAList,
           unknown_tokens |-> NotAList]

\* planning.py line 81: retries=1
PlanRetries == 1

\* a completion as chat_json reads it: a JSON object, text that is no JSON, JSON
\* whose root is no object, or no completion because the request raised
ObjectReply(pl) == [kind |-> "object", payload |-> pl]
Malformed == [kind |-> "malformed", payload |-> NoPlan]
NonObject == [kind |-> "non_object", payload |-> NoPlan]
RequestFailed == [kind |-> "request_failed", payload |-> NoPlan]

ChatRaised == [raised |-> TRUE, payload |-> NoPlan]

\* common/openai_client.py lines 50-69: the attempts of chat_json from the
\* given one on; the request itself is outside the try block
RECURSIVE chat_json_from(_, _, _)
chat_json_from(replies, attempt, retries) ==
    IF attempt > retries + 1 \/ attempt > Len(replies) THEN ChatRaised
    ELSE IF replies[attempt].kind = "request_failed" THEN ChatRaised
    ELSE IF replies[attempt].kind = "object"
         THEN [raised |-> FALSE, payload |-> replies[attempt].payload]
    ELSE chat_json_from(replies, attempt + 1, retries)

\* common/openai_client.py lines 38-69: chat_json
chat_json(replies, retries) == chat_json_from(replies, 1, retries)

\* the completions one planning call may receive, attempt by attempt
ChatRuns ==
    {<<ObjectReply(pl)>> : pl \in AiPayloads}
        \cup {<<Malformed, ObjectReply(pl)>> : pl \in AiPayloads}
        \cup {<<Malformed, Malformed>>, <<NonObject, Malformed>>, <<RequestFailed>>}

\* the selected_asset_ids a caller may pass (none, one template, a template
\* and an id of no template)
Selections == { <<>>, <<"t1">>, <<"t2", "t9">> }

----------------------------------------------------------------------------
(* Calls not in progress *)

\* no build_generation_plan call in progress, both templates in the manual
PlanIdle ==
    /\ templates = TemplateIds
    /\ ppc = "idle"
    /\ plan_selected = <<>>
    /\ fallback = NoPlan
    /\ payload = NoPlan
    /\ chat_replies = <<>>
    /\ plan = NoPlan

NoReport == [status |-> "NONE", total |-> 0, generated |-> 0, failed |-> 0,
             skipped |-> 0]

\* no execute_generation call in progress
ExecIdle ==
    /\ epc = "idle"
    /\ run_profile = EmptyDict
    /\ file_overrides_by_file = EmptyDict
    /\ selected_ids = {}
    /\ run_db0 = [t \in Tokens |-> NoRow]
    /\ ei = 0
    /\ file_results = <<>>
    /\ entry_log = <<>>
    /\ events = <<>>
    /\ generated = 0
    /\ failed = 0
    /\ skipped = 0
    /\ report = NoReport

\* no _build_effective_map call in progress
MergeIdle ==
    /\ base_values = EmptyDict
    /\ sources = EmptyDict
    /\ global_overrides = EmptyDict
    /\ file_overrides = EmptyDict
    /\ merged = EmptyDict
    /\ mpc = "idle"

\* no resolve_required_variables call in progress, no RagVariableValue row
ResolveIdle ==
    /\ db = [t \in Tokens |-> NoRow]
    /\ rpc = "idle"
    /\ required_tokens = <<>>
    /\ customer_profile = EmptyDict
    /\ human_overrides = EmptyDict
    /\ keys = EmptyDict
    /\ existing = EmptyDict
    /\ ri = 0
    /\ values = EmptyDict
    /\ source_by_token = EmptyDict
    /\ steps = <<>>
    /\ db0 = [t \in Tokens |-> NoRow]

\* no split_text_deterministic call made
SplitIdle ==
    /\ split_text = <<>>
    /\ split_config = [target_chars |-> 0, overlap_chars |-> 0]
    /\ split_first = <<>>
    /\ split_second = <<>>
    /\ spc = 0

\* no replace_placeholders call made
ReplaceIdle ==
    /\ rp_text = <<>>
    /\ rp_values = EmptyDict
    /\ rp_result = [text |-> <<>>, unresolved |-> <<>>]
    /\ hpc = "idle"
    /\ ex_text = <<>>
    /\ ex_tokens = <<>>
    /\ ex_counts = EmptyDict
    /\ xpc = "idle"

\* no apply_placeholders_to_ooxml_bytes call made
ArchiveIdle ==
    /\ source_archive = <<>>
    /\ archive_ext = <<>>
    /\ archive_values = EmptyDict
    /\ applied = [archive |-> <<>>, unresolved |-> <<>>]
    /\ apc = "idle"

\* no rrf_merge call made
MergeRowsIdle ==
    /\ vector_rows = <<>>
    /\ fts_rows = <<>>
    /\ top_n = 0
    /\ merged_first = <<>>
    /\ merged_second = <<>>
    /\ qpc = 0

\* what a call of index_existing_asset gave its caller
Returned(ids) == [raised |-> FALSE, ids |-> ids]
NotReturned == [raised |-> TRUE, ids |-> <<>>]

\* no index_existing_asset call made, on empty tables
IndexIdle ==
    /\ ph_table = {}
    /\ chunk_table = {}
    /\ ph_before = {}
    /\ rows_before = {}
    /\ indexed_text = None
    /\ known_keys = {}
    /\ index_config = None
    /\ index_force = FALSE
    /\ index_rows = NotReturned
    /\ ids_before = NotReturned
    /\ repeated = FALSE

\* no ingest_package_for_manual call in progress
IngestIdle ==
    /\ ingest_docs = <<>>
    /\ ingest_force = FALSE
    /\ tx_chunks = {}
    /\ tx_placeholders = {}
    /\ asset_i = 0
    /\ extraction_errors = 0
    /\ chunks_total = 0
    /\ processed_chunks = <<>>
    /\ ipc = "idle"
    /\ abort_cause = "none"

\* no chat_json call stepped through
ChatIdle ==
    /\ chat_retries = 0
    /\ chat_requests = 0
    /\ chat_responses = <<>>
    /\ chat_result = "none"
    /\ kpc = "idle"

Execs == {"A", "B"}

\* no resolve_required_variables call and no transaction for an execution
IdleFrame ==
    [pc |-> "idle", required_tokens |-> <<>>, customer_profile |-> EmptyDict,
     human_overrides |-> EmptyDict, existing |-> EmptyDict, i |-> 0,
     writes |-> EmptyDict, values |-> EmptyDict]

\* no concurrent executions
RaceIdle ==
    /\ runs = [r \in Execs |-> IdleFrame]
    /\ write_log = <<>>
    /\ schema = EmptyDict
    /\ round_db0 = [t \in Tokens |-> NoRow]

\* a RagRun row as create_run makes it
QueuedRun == [status |-> "QUEUED", metrics |-> "none"]

\* execute_generation has not been called
NoOutcome == [raised |-> FALSE, status |-> "NONE", generated |-> 0, failed |-> 0,
              storable |-> TRUE]

\* no generate_manual_task call made
TaskIdle ==
    /\ run_table = [i \in 1..MaxRuns |-> QueuedRun]
    /\ manual_status = "DRAFT"
    /\ task_run = 0
    /\ task_outcome = NoOutcome
    /\ tpc = "idle"
    /\ task_raised = FALSE

LaterIdle == ChatIdle /\ RaceIdle /\ TaskIdle

\* no generation call in progress
GenerationIdle == ResolveIdle /\ MergeIdle /\ PlanIdle /\ ExecIdle

\* no indexing, rendering or retrieval call in progress
OtherCallsIdle ==
    /\ SplitIdle /\ ReplaceIdle /\ ArchiveIdle /\ MergeRowsIdle /\ IndexIdle
    /\ IngestIdle /\ LaterIdle

----------------------------------------------------------------------------
(* resolve_required_variables, one loop pass per step *)

InitResolve ==
    /\ OtherCallsIdle
    /\ MergeIdle
    /\ PlanIdle
    /\ ExecIdle
    /\ db = [t \in Tokens |-> NoRow]
    /\ rpc = "idle"
    /\ required_tokens = <<>>
    /\ customer_profile = EmptyDict
    /\ human_overrides = EmptyDict
    /\ keys = EmptyDict
    /\ existing = EmptyDict
    /\ ri = 0
    /\ values = EmptyDict
    /\ source_by_token = EmptyDict
    /\ steps = <<>>
    /\ db0 = [t \in Tokens |-> NoRow]

\* lines 128-146: the call starts and reads keys and existing
ResolveCall ==
    /\ rpc = "idle"
    /\ \E req \in ReqLists :
       \E prof \in ProfileDicts(Range(req)) :
       \E ovr \in OverrideDicts(Range(req)) :
       \E ks \in KeyDicts(Range(req)) :
          /\ required_tokens' = req
          /\ customer_profile' = prof
          /\ human_overrides' = ovr
          /\ keys' = ks
          /\ existing' = existing_rows(db, req)
          /\ rpc' = IF req = <<>> THEN "returned" ELSE "loop"
    /\ ri' = 0
    /\ values' = EmptyDict
    /\ source_by_token' = EmptyDict
    /\ steps' = <<>>
    /\ db0' = db
    /\ UNCHANGED <<xvars, db, mvars, pvars, evars>>

\* lines 148-258: one pass of the loop; line 260 after the last one
ResolveToken ==
    /\ rpc = "loop"
    /\ ri < Len(required_tokens)
    /\ \E reply \in AiReplies :
          LET token == required_tokens[ri + 1]
              o == resolve_token(token, GetRow(existing, token), customer_profile,
                                 human_overrides, GetKey(keys, token), reply)
          IN  /\ db' = rows_after(db, o)
              /\ values' = values_after(values, o)
              /\ source_by_token' = sources_after(source_by_token, o)
              /\ steps' = Append(steps, o)
              /\ rpc' = IF o.rule = "raised" THEN "raised"
                        ELSE IF ri + 1 = Len(required_tokens) THEN "returned"
                        ELSE "loop"
    /\ ri' = ri + 1
    /\ UNCHANGED <<xvars, required_tokens, customer_profile, human_overrides, keys,
                   existing, db0, mvars, pvars, evars>>

\* the caller has the returned maps; the frame of the call is gone
ResolveReturn ==
    /\ rpc = "returned"
    /\ rpc' = "idle"
    /\ required_tokens' = <<>>
    /\ customer_profile' = EmptyDict
    /\ human_overrides' = EmptyDict
    /\ keys' = EmptyDict
    /\ existing' = EmptyDict
    /\ ri' = 0
    /\ values' = EmptyDict
    /\ source_by_token' = EmptyDict
    /\ steps' = <<>>
    /\ db0' = db
    /\ UNCHANGED <<xvars, db, mvars, pvars, evars>>

NextResolve == ResolveCall \/ ResolveToken \/ ResolveReturn

SpecResolve == InitResolve /\ [][NextResolve]_vars

----------------------------------------------------------------------------
(* generation/services/execution.py: _build_effective_map *)

\* lines 47-55: the loop body of _apply for one item of the overrides
apply_item(m, srcs, token, value) ==
    IF Get(srcs, token) = CUSTOMER_INPUT THEN m
    ELSE IF value = None THEN m
    ELSE IF strip(value) = <<>> THEN m
    ELSE Put(m, token, strip(value))

\* lines 44-55: _apply; the items of a dict have distinct keys, so the order
\* of the loop does not matter and the items are taken in any order
RECURSIVE apply_overrides(_, _, _)
apply_overrides(m, srcs, overrides) ==
    IF DOMAIN overrides = {} THEN m
    ELSE LET token == CHOOSE k \in DOMAIN overrides : TRUE
             rest == [k \in DOMAIN overrides \ {token} |-> overrides[k]]
         IN  apply_overrides(apply_item(m, srcs, token, overrides[token]), srcs, rest)

build_effective_map_file_first(base, srcs, global, file) ==
    apply_overrides(apply_overrides(base, srcs, file), srcs, global)

\* lines 35-59: _build_effective_map
build_effective_map(base, srcs, global, file) ==
    apply_overrides(apply_overrides(base, srcs, global), srcs, file)

\* the arguments of a call, token by token: base value and source, the global
\* override and the per-output override (a missing key, None, blank, padded)
BaseEntries(t) == {EmptyDict, (t :> <<"c">>)}
SourceEntries(t) == {EmptyDict, (t :> CUSTOMER_INPUT), (t :> DEFAULT)}
GlobalEntries(t) == {EmptyDict, (t :> None), (t :> <<SP>>), (t :> <<SP, "g", SP>>)}
FileEntries(t) == {EmptyDict, (t :> <<>>), (t :> <<"f", SP>>)}

DictsOf(c1, c2) == {a @@ b : a \in c1, b \in c2}

InitMerge ==
    /\ OtherCallsIdle
    /\ ResolveIdle
    /\ PlanIdle
    /\ ExecIdle
    /\ base_values \in DictsOf(BaseEntries("COMPANY_NAME"), BaseEntries("SCOPE"))
    /\ sources \in DictsOf(SourceEntries("COMPANY_NAME"), SourceEntries("SCOPE"))
    /\ global_overrides \in DictsOf(GlobalEntries("COMPANY_NAME"), GlobalEntries("SCOPE"))
    /\ file_overrides \in DictsOf(FileEntries("COMPANY_NAME"), FileEntries("SCOPE"))
    /\ merged = EmptyDict
    /\ mpc = "called"

\* lines 42-59: the call runs and returns merged
BuildEffectiveMap ==
    /\ mpc = "called"
    /\ merged' = build_effective_map(base_values, sources, global_overrides,
                                     file_overrides)
    /\ mpc' = "returned"
    /\ UNCHANGED <<xvars, base_values, sources, global_overrides, file_overrides, rvars, pvars,
                   evars>>

NextMerge == BuildEffectiveMap

SpecMerge == InitMerge /\ [][NextMerge]_vars

\* C4: the returned map holds for each token the base value when its source
\* is customer_input; otherwise the trimmed per-output override if that is
\* non-blank, else the trimmed global override if that is non-blank, else the
\* base value; the token is absent when none of these exists.
C4_EffectiveMap ==
    mpc = "returned" =>
        \A t \in Tokens :
            LET want ==
                    IF Get(sources, t) = CUSTOMER_INPUT THEN Get(base_values, t)
                    ELSE IF IsNonBlankStr(Get(file_overrides, t))
                    THEN strip(Get(file_overrides, t))
                    ELSE IF IsNonBlankStr(Get(global_overrides, t))
                    THEN strip(Get(global_overrides, t))
                    ELSE Get(base_values, t)
            IN  /\ Get(merged, t) = want
                /\ t \in DOMAIN merged <=> want # None

\* the case of the test: a customer_input token with a global override keeps
\* its base value, and a default token with both overrides takes the
\* per-output one
C4_Witness ==
    /\ mpc = "returned"
    /\ Get(sources, "COMPANY_NAME") = CUSTOMER_INPUT
    /\ IsNonBlankStr(Get(global_overrides, "COMPANY_NAME"))
    /\ Get(merged, "COMPANY_NAME") = <<"c">>
    /\ Get(sources, "SCOPE") = DEFAULT
    /\ IsNonBlankStr(Get(global_overrides, "SCOPE"))
    /\ IsNonBlankStr(Get(file_overrides, "SCOPE"))
    /\ Get(merged, "SCOPE") = <<"f">>

----------------------------------------------------------------------------
(* build_generation_plan *)

InitPlan ==
    /\ OtherCallsIdle
    /\ ResolveIdle
    /\ MergeIdle
    /\ ExecIdle
    /\ templates \in SUBSET TemplateIds
    /\ ppc = "idle"
    /\ plan_selected = <<>>
    /\ fallback = NoPlan
    /\ payload = NoPlan
    /\ chat_replies = <<>>
    /\ plan = NoPlan

\* lines 59-64: the call computes the deterministic plan
PlanCall ==
    /\ ppc = "idle"
    /\ \E sel \in Selections :
          /\ plan_selected' = sel
          /\ fallback' = deterministic_plan(template_assets(templates, sel))
    /\ ppc' = "fallback_ready"
    /\ UNCHANGED <<xvars, templates, payload, chat_replies, plan, rvars, mvars, evars>>

\* lines 76-84: chat_json returns a JSON object, which is validated
PlanReturn ==
    /\ ppc = "fallback_ready"
    /\ \E replies \in ChatRuns :
          /\ ~chat_json(replies, PlanRetries).raised
          /\ chat_replies' = replies
          /\ payload' = chat_json(replies, PlanRetries).payload
          /\ plan' = validate_plan(chat_json(replies, PlanRetries).payload, fallback)
    /\ ppc' = "returned"
    /\ UNCHANGED <<xvars, templates, plan_selected, fallback, rvars, mvars, evars>>

\* line 76: chat_json raises (no JSON object after the retry, or the request
\* failed); nothing catches it in build_generation_plan
PlanRaise ==
    /\ ppc = "fallback_ready"
    /\ \E replies \in ChatRuns :
          /\ chat_json(replies, PlanRetries).raised
          /\ chat_replies' = replies
    /\ ppc' = "raised"
    /\ UNCHANGED <<xvars, templates, plan_selected, fallback, payload, plan, rvars, mvars,
                   evars>>

NextPlan == PlanCall \/ PlanReturn \/ PlanRaise

SpecPlan == InitPlan /\ [][NextPlan]_vars

\* the ids of the templates the plan is for: those of the manual, or of the
\* caller's subset
PlannedTemplates ==
    {id \in templates : plan_selected # <<>> => id \in Range(plan_selected)}

\* C9: the returned plan has exactly one output entry per template of the set
\* (or of the caller's subset), with that template's id and destination path
\* outputs/<file name>: the AI response changes strategy fields only.
C9_OneEntryPerTemplate ==
    ppc = "returned" =>
        /\ plan.outputs.is_list
        /\ \A i \in DOMAIN plan.outputs.items :
              /\ plan.outputs.items[i].is_dict
              /\ plan.outputs.items[i].template_asset_id \in PlannedTemplates
        /\ \A id \in PlannedTemplates :
              \E i \in DOMAIN plan.outputs.items :
                  /\ plan.outputs.items[i].template_asset_id = id
                  /\ \A j \in DOMAIN plan.outputs.items :
                        plan.outputs.items[j].template_asset_id = id => j = i
                  /\ \E k \in DOMAIN AllTemplates :
                        /\ AllTemplates[k].id = id
                        /\ plan.outputs.items[i].output_rel_path =
                               deterministic_output(AllTemplates[k]).output_rel_path

\* C10: the deterministic plan exists before the AI reply; a payload that has
\* no outputs list gives exactly the deterministic plan; every returned plan
\* has outputs, required_tokens and unknown_tokens as lists, the token fields
\* taken from the deterministic plan when the payload's are no lists.
C10_FallbackAndShape ==
    /\ ppc \in {"fallback_ready", "returned", "raised"} =>
          fallback = deterministic_plan(template_assets(templates, plan_selected))
    /\ ppc = "returned" =>
          /\ ~payload.outputs.is_list => plan = fallback
          /\ plan.outputs.is_list
          /\ plan.required_tokens.is_list
          /\ plan.unknown_tokens.is_list
          /\ payload.outputs.is_list =>
                /\ plan.outputs = payload.outputs
                /\ plan.required_tokens =
                       IF payload.required_tokens.is_list THEN payload.required_tokens
                       ELSE fallback.required_tokens
                /\ plan.unknown_tokens =
                       IF payload.unknown_tokens.is_list THEN payload.unknown_tokens
                       ELSE fallback.unknown_tokens

\* a payload with an outputs list and no token lists was accepted for a manual
\* whose deterministic plan has required and unknown tokens
C10_Witness ==
    /\ ppc = "returned"
    /\ payload.outputs.is_list
    /\ ~payload.required_tokens.is_list
    /\ ~payload.unknown_tokens.is_list
    /\ plan.required_tokens = JsonList(<<"COMPANY_NAME", "SCOPE">>)
    /\ plan.unknown_tokens = JsonList(<<"SCOPE">>)
    /\ plan # fallback

----------------------------------------------------------------------------
(* generation/services/execution.py: execute_generation *)

\* RagAsset.id is a UUIDField: these ids stand for well-formed UUIDs (t9 is
\* the id of no template of the manual); a lookup by any other string raises
\* ValidationError, not DoesNotExist
is_uuid(id) == id \in TemplateIds \cup {"t9"}

entry_kind_missing_id_first(item, sel, tpl) ==
    IF ~item.is_dict THEN "raise"
    ELSE IF item.template_asset_id = "" THEN "missing_id"
    ELSE IF sel # {} /\ item.template_asset_id \notin sel THEN "skip"
    ELSE IF ~is_uuid(item.template_asset_id) THEN "raise"
    ELSE IF item.template_asset_id \notin tpl THEN "not_found"
    ELSE "render"

\* lines 160-196: what the loop body does with a plan output before it reads
\* the template: output_item.get on an item that is no dict raises (line 161)
entry_kind(item, sel, tpl) ==
    IF ~item.is_dict THEN "raise"
    ELSE IF sel # {} /\ item.template_asset_id \notin sel THEN "skip"
    ELSE IF item.template_asset_id = "" THEN "missing_id"
    ELSE IF ~is_uuid(item.template_asset_id) THEN "raise"
    ELSE IF item.template_asset_id \notin tpl THEN "not_found"
    ELSE "render"

\* the RagAsset row of a template id
asset_of(id) == AllTemplates[CHOOSE k \in DOMAIN AllTemplates : AllTemplates[k].id = id]

\* lines 28-32: _resolve_output_rel_path
resolve_output_rel_path(asset, item) ==
    IF item.output_rel_path # <<>> THEN item.output_rel_path
    ELSE <<"outputs">> \o asset.package_rel_path

\* common/placeholders.py lines 21-27: the tokens of the template that the
\* map gives no non-blank value (the template holds the tokens its
\* placeholder rows name)
unresolved_tokens(id, vals) ==
    sorted({t \in DOMAIN placeholders(id) : ~IsNonBlankStr(Get(vals, t))})

classify_status_failed_on_any_error(nfailed, ngenerated) ==
    IF nfailed > 0 THEN "FAILED" ELSE "SUCCEEDED"

\* lines 246-250
classify_status(nfailed, ngenerated) ==
    IF nfailed > 0 /\ ngenerated = 0 THEN "FAILED"
    ELSE IF nfailed > 0 THEN "PARTIAL"
    ELSE "SUCCEEDED"

\* an item of file_results; effective is the map the render used
Result(id, status, error, unresolved, effective, path) ==
    [template_asset_id |-> id, status |-> status, error |-> error,
     unresolved_tokens |-> unresolved, effective |-> effective,
     output_rel_path |-> path]

\* an event of the run; the payload of a per-file event is the file result
Event(message, event_payload) == [message |-> message, payload |-> event_payload]
NoPayload == Result("", "", "", <<>>, EmptyDict, <<>>)

file_overrides_for_any(by_file, id) ==
    IF DOMAIN by_file = {} THEN EmptyDict
    ELSE by_file[CHOOSE k \in DOMAIN by_file : TRUE]

\* line 203: file_overrides_by_file.get(str(template_asset.id))
file_overrides_for(by_file, id) ==
    IF id \in DOMAIN by_file THEN by_file[id] ELSE EmptyDict

\* the arguments of a run
RunProfiles == {EmptyDict, ("COMPANY_NAME" :> <<"c">>)}
RunGlobalOverrides ==
    {EmptyDict, ("COMPANY_NAME" :> <<SP, "g">>) @@ ("SCOPE" :> <<"g">>)}
RunFileOverrides ==
    {EmptyDict, ("t1" :> (("COMPANY_NAME" :> <<"f">>) @@ ("SCOPE" :> <<"f">>)))}
RunSelections == {<<>>, <<"t1">>}

\* the RagVariableKey rows a run may find for the tokens of T
RunKeyDicts(T) ==
    {a @@ b :
        a \in EntriesOver(T, "COMPANY_NAME",
                 {EmptyDict,
                  ("COMPANY_NAME" :> [default_value |-> None,
                                      generation_policy |-> AI_INFER])}),
        b \in EntriesOver(T, "SCOPE",
                 {("SCOPE" :> [default_value |-> <<"d">>,
                               generation_policy |-> DETERMINISTIC])})}

\* the RagVariableValue rows earlier runs may have left
RunRows ==
    { [t \in Tokens |-> NoRow],
      [t \in Tokens |-> IF t = "COMPANY_NAME" THEN Row(<<"a">>, CUSTOMER_INPUT, 100)
                        ELSE NoRow],
      [t \in Tokens |-> IF t = "COMPANY_NAME" THEN Row(<<"a">>, AI_INFERRED, 70)
                        ELSE Row(<<"d">>, DEFAULT, 100)] }

InitExec ==
    /\ OtherCallsIdle
    /\ MergeIdle
    /\ ExecIdle
    /\ db \in RunRows
    /\ rpc = "idle"
    /\ required_tokens = <<>>
    /\ customer_profile = EmptyDict
    /\ human_overrides = EmptyDict
    /\ keys = EmptyDict
    /\ existing = EmptyDict
    /\ ri = 0
    /\ values = EmptyDict
    /\ source_by_token = EmptyDict
    /\ steps = <<>>
    /\ db0 = db
    /\ templates \in SUBSET TemplateIds
    /\ ppc = "idle"
    /\ plan_selected = <<>>
    /\ fallback = NoPlan
    /\ payload = NoPlan
    /\ chat_replies = <<>>
    /\ plan = NoPlan

\* lines 115-120: the run starts (its transaction begins) and calls
\* build_generation_plan(manual), which computes the deterministic plan
ExecCall ==
    /\ epc = "idle"
    /\ ppc = "idle"
    /\ \E prof \in RunProfiles, g \in RunGlobalOverrides, f \in RunFileOverrides,
          sel \in RunSelections :
          /\ run_profile' = prof
          /\ global_overrides' = g
          /\ file_overrides_by_file' = f
          /\ selected_ids' = Range(sel)
    /\ plan_selected' = <<>>
    /\ fallback' = deterministic_plan(template_assets(templates, <<>>))
    /\ ppc' = "fallback_ready"
    /\ run_db0' = db
    /\ epc' = "planning"
    /\ UNCHANGED <<xvars, rvars, base_values, sources, file_overrides, merged, mpc,
                   templates, payload, chat_replies, plan, ei, file_results,
                   entry_log, events,
                   generated, failed, skipped, report>>

\* line 120: the exception of build_generation_plan leaves execute_generation
ExecPlanRaised ==
    /\ epc = "planning"
    /\ ppc = "raised"
    /\ epc' = "raised_plan"
    /\ UNCHANGED <<xvars, rvars, mvars, pvars, run_profile, file_overrides_by_file,
                   selected_ids, run_db0, ei, file_results, entry_log, events, generated,
                   failed, skipped, report>>

\* lines 121-141: the plan is recorded on the run, the event is written, and
\* resolve_required_variables is called with the plan's required_tokens, the
\* profile and the global overrides
ExecResolveCall ==
    /\ epc = "planning"
    /\ ppc = "returned"
    /\ rpc = "idle"
    /\ \E ks \in RunKeyDicts(Range(plan.required_tokens.items)) : keys' = ks
    /\ required_tokens' = plan.required_tokens.items
    /\ customer_profile' = run_profile
    /\ human_overrides' = global_overrides
    /\ existing' = existing_rows(db, plan.required_tokens.items)
    /\ rpc' = IF plan.required_tokens.items = <<>> THEN "returned" ELSE "loop"
    /\ ri' = 0
    /\ values' = EmptyDict
    /\ source_by_token' = EmptyDict
    /\ steps' = <<>>
    /\ db0' = db
    /\ epc' = "resolving"
    /\ events' = Append(events, Event("Generation plan ready", NoPayload))
    /\ UNCHANGED <<xvars, db, mvars, pvars, run_profile, file_overrides_by_file,
                   selected_ids, run_db0, ei, file_results, entry_log, generated,
                   failed, skipped, report>>

\* lines 135-158: the maps come back and the loop over the outputs begins
ExecResolved ==
    /\ epc = "resolving"
    /\ rpc = "returned"
    /\ base_values' = values
    /\ sources' = source_by_token
    /\ rpc' = "idle"
    /\ required_tokens' = <<>>
    /\ customer_profile' = EmptyDict
    /\ human_overrides' = EmptyDict
    /\ keys' = EmptyDict
    /\ existing' = EmptyDict
    /\ ri' = 0
    /\ values' = EmptyDict
    /\ source_by_token' = EmptyDict
    /\ steps' = <<>>
    /\ epc' = "loop"
    /\ events' = Append(events, Event("Variables resolved", NoPayload))
    /\ UNCHANGED <<xvars, db, db0, global_overrides, file_overrides, merged, mpc, pvars,
                   run_profile, file_overrides_by_file, selected_ids, run_db0, ei,
                   file_results, entry_log, generated, failed, skipped, report>>

\* the plan output the loop is at
CurrentItem == plan.outputs.items[ei + 1]

InLoop == epc = "loop" /\ ei < Len(plan.outputs.items)

\* lines 161 and 179: an exception outside the try blocks leaves
\* execute_generation; transaction.atomic rolls the rows of the run back
ExecEntryRaise ==
    /\ InLoop
    /\ entry_kind(CurrentItem, selected_ids, templates) = "raise"
    /\ epc' = "raised_entry"
    /\ db' = run_db0
    /\ UNCHANGED <<xvars, rpc, required_tokens, customer_profile, human_overrides, keys,
                   existing, ri, values, source_by_token, steps, db0, mvars, pvars,
                   run_profile, file_overrides_by_file, selected_ids, run_db0, ei,
                   file_results, entry_log, events, generated, failed, skipped, report>>

\* lines 162-164
ExecEntrySkip ==
    /\ InLoop
    /\ entry_kind(CurrentItem, selected_ids, templates) = "skip"
    /\ skipped' = skipped + 1
    /\ entry_log' = Append(entry_log, "skipped")
    /\ ei' = ei + 1
    /\ UNCHANGED <<xvars, rvars, mvars, pvars, epc, run_profile, file_overrides_by_file,
                   selected_ids, run_db0, file_results, events, generated, failed,
                   report>>

\* lines 165-176 and 184-195: no template_asset_id, or no such template
ExecEntryNoTemplate ==
    /\ InLoop
    /\ entry_kind(CurrentItem, selected_ids, templates) \in {"missing_id", "not_found"}
    /\ failed' = failed + 1
    /\ file_results' =
           Append(file_results,
                  Result(CurrentItem.template_asset_id, "error",
                         IF CurrentItem.template_asset_id = ""
                         THEN "Missing template_asset_id in plan output"
                         ELSE "Template asset not found",
                         <<>>, EmptyDict, <<>>))
    /\ entry_log' = Append(entry_log, "error")
    /\ ei' = ei + 1
    /\ UNCHANGED <<xvars, rvars, mvars, pvars, epc, run_profile, file_overrides_by_file,
                   selected_ids, run_db0, events, generated, skipped, report>>

\* lines 197-232: the template is read, rendered with the effective map and
\* written
ExecEntryGenerated ==
    /\ InLoop
    /\ entry_kind(CurrentItem, selected_ids, templates) = "render"
    /\ LET id == CurrentItem.template_asset_id
           per_file == file_overrides_for(file_overrides_by_file, id)
           effective == build_effective_map(base_values, sources, global_overrides,
                                            per_file)
           result == Result(id, "generated", "", unresolved_tokens(id, effective),
                            effective,
                            resolve_output_rel_path(asset_of(id), CurrentItem))
       IN  /\ file_overrides' = per_file
           /\ merged' = effective
           /\ file_results' = Append(file_results, result)
           /\ events' = Append(events, Event("File generated", result))
    /\ generated' = generated + 1
    /\ entry_log' = Append(entry_log, "generated")
    /\ ei' = ei + 1
    /\ UNCHANGED <<xvars, rvars, base_values, sources, global_overrides, mpc, pvars, epc,
                   run_profile, file_overrides_by_file, selected_ids, run_db0,
                   failed, skipped, report>>

\* lines 233-244: reading, rendering or writing raised inside the try block
ExecEntryFailed ==
    /\ InLoop
    /\ entry_kind(CurrentItem, selected_ids, templates) = "render"
    /\ \E error \in {"read failed", "write failed"} :
          LET result == Result(CurrentItem.template_asset_id, "error", error, <<>>,
                               EmptyDict, <<>>)
          IN  /\ file_results' = Append(file_results, result)
              /\ events' = Append(events, Event("File generation failed", result))
    /\ failed' = failed + 1
    /\ entry_log' = Append(entry_log, "error")
    /\ ei' = ei + 1
    /\ UNCHANGED <<xvars, rvars, mvars, pvars, epc, run_profile, file_overrides_by_file,
                   selected_ids, run_db0, generated, skipped, report>>

\* lines 246-264: the report
ExecFinish ==
    /\ epc = "loop"
    /\ ei = Len(plan.outputs.items)
    /\ report' = [status |-> classify_status(failed, generated),
                  total |-> Len(file_results), generated |-> generated,
                  failed |-> failed, skipped |-> skipped]
    /\ epc' = "done"
    /\ UNCHANGED <<xvars, rvars, mvars, pvars, run_profile, file_overrides_by_file,
                   selected_ids, run_db0, ei, file_results, entry_log, events, generated,
                   failed, skipped>>

NextExec ==
    \/ ExecCall
    \/ PlanReturn
    \/ PlanRaise
    \/ ExecPlanRaised
    \/ ExecResolveCall
    \/ ResolveToken
    \/ ExecResolved
    \/ ExecEntryRaise
    \/ ExecEntrySkip
    \/ ExecEntryNoTemplate
    \/ ExecEntryGenerated
    \/ ExecEntryFailed
    \/ ExecFinish

SpecExec == InitExec /\ [][NextExec]_vars

----------------------------------------------------------------------------
(* Properties of execute_generation *)

\* how many plan entries ended the given way
CountOf(log, kind) == Cardinality({i \in DOMAIN log : log[i] = kind})

\* the caller's selection leaves the plan entry out
Excluded(item) == selected_ids # {} /\ item.template_asset_id \notin selected_ids

\* C3: in every rendered output, a token of the template whose persisted value
\* has source customer_input is rendered with the persisted customer value:
\* no global or per-output override of the run replaces it.
C3_CustomerValueRendered ==
    \A i \in DOMAIN file_results :
        file_results[i].status = "generated" =>
            \A t \in DOMAIN placeholders(file_results[i].template_asset_id) :
                (db[t].source = CUSTOMER_INPUT /\ t \in DOMAIN file_results[i].effective)
                    => file_results[i].effective[t] = db[t].value

\* every attempt of the planning chat_json call got a completion that is no
\* JSON object
AllAttemptsMalformed ==
    /\ Len(chat_replies) = PlanRetries + 1
    /\ \A i \in DOMAIN chat_replies :
          chat_replies[i].kind \in {"malformed", "non_object"}

\* C11: when the planning completion is no parseable JSON object even after
\* the retry, build_generation_plan returns the deterministic plan and the run
\* goes on: the malformed response does not fail the run.
C11_MalformedPlanFallsBack ==
    AllAttemptsMalformed =>
        /\ ppc = "returned"
        /\ plan = fallback
        /\ epc # "raised_plan"

\* C5: the report status is SUCCEEDED exactly when no entry errored, FAILED
\* exactly when at least one errored and none was generated, PARTIAL exactly
\* when at least one errored and at least one was generated.
C5_StatusClassification ==
    epc = "done" =>
        LET errored == CountOf(entry_log, "error")
            rendered == CountOf(entry_log, "generated")
        IN  /\ report.status = "SUCCEEDED" <=> errored = 0
            /\ report.status = "FAILED" <=> (errored > 0 /\ rendered = 0)
            /\ report.status = "PARTIAL" <=> (errored > 0 /\ rendered > 0)

\* a run of two entries, one generated and one in error, reported PARTIAL
C5_Witness ==
    /\ epc = "done"
    /\ report.status = "PARTIAL"
    /\ CountOf(entry_log, "error") = 1
    /\ CountOf(entry_log, "generated") = 1

\* C6: a failure while one plan entry is processed never aborts the run: the
\* loop over the plan entries never ends in an exception.
C6_NoEntryAbortsRun == epc # "raised_entry"

\* C8: every plan entry is counted exactly once in the report: an entry left
\* out by the caller's selection is skipped and has no file result, every
\* other entry has one file result, total = generated + failed = number of
\* file results and generated + failed + skipped = number of plan entries.
C8_EveryEntryCountedOnce ==
    /\ epc \in {"loop", "done"} =>
          /\ Len(entry_log) = ei
          /\ generated + failed + skipped = ei
          /\ generated + failed = Len(file_results)
          /\ \A i \in 1..ei :
                Excluded(plan.outputs.items[i]) <=> entry_log[i] = "skipped"
          /\ skipped = CountOf(entry_log, "skipped")
    /\ epc = "done" =>
          /\ report.total = report.generated + report.failed
          /\ report.total = Len(file_results)
          /\ report.generated + report.failed + report.skipped
                 = Len(plan.outputs.items)
          /\ report.skipped = CountOf(entry_log, "skipped")

\* a run with a selection reported one generated file and one skipped entry
\* that has no template_asset_id
C8_Witness ==
    /\ epc = "done"
    /\ selected_ids = {"t1"}
    /\ report.generated = 1
    /\ report.skipped = 1
    /\ report.total = 1
    /\ \E i \in DOMAIN plan.outputs.items :
          plan.outputs.items[i].template_asset_id = ""

----------------------------------------------------------------------------
(* Properties of resolve_required_variables *)

LastStep == steps[Len(steps)]

\* C1: once the persisted row of a token has source customer_input, no step of
\* any later call changes its source or value, and a call that starts with such
\* a row reuses it (its value, its source) and writes nothing for the token,
\* whatever profile, overrides, schema rows and AI replies the call carries.
C1_CustomerInputPermanent ==
    [][ /\ \A t \in Tokens :
              db[t].source = CUSTOMER_INPUT =>
                  db'[t].source = db[t].source /\ db'[t].value = db[t].value
        /\ \A i \in DOMAIN steps' :
              db0'[steps'[i].token].source = CUSTOMER_INPUT =>
                  /\ steps'[i].write = NoRow
                  /\ steps'[i].resolved
                  /\ steps'[i].value = db0'[steps'[i].token].value
                  /\ steps'[i].source = CUSTOMER_INPUT ]_vars

\* a call that found a customer_input row and carried another profile value,
\* an override and a schema default for the same token has processed it
C1_Witness ==
    \E i \in DOMAIN steps :
        LET t == steps[i].token
        IN  /\ db0[t].source = CUSTOMER_INPUT
            /\ profile_value(customer_profile, t) \notin {None, db0[t].value}
            /\ IsNonBlankStr(Get(human_overrides, t))
            /\ has_default(GetKey(keys, t))

\* C2: every pass applies the first rule that matches, in the order existing
\* customer_input, profile value, existing human_override, override of the
\* call, schema default, token not in the schema, AI by policy; the stored
\* rows of the profile, override and default rules have confidence 1.0.
C2_FirstMatchingRule ==
    \A i \in DOMAIN steps :
        LET o == steps[i]
            t == o.token
            ex == GetRow(existing, t)
            pv == profile_value(customer_profile, t)
            ov == Get(human_overrides, t)
            key == GetKey(keys, t)
            r1 == ex.source = CUSTOMER_INPUT
            r2 == pv # None
            r3 == ex.source = HUMAN_OVERRIDE
            r4 == IsNonBlankStr(ov)
            r5 == IsNonBlankStr(key.default_value)
            r6 == t \notin DOMAIN keys
        IN  /\ r1 => o.write = NoRow /\ o.resolved /\ o.value = ex.value
                     /\ o.source = CUSTOMER_INPUT
            /\ ~r1 /\ r2 => o.write = Row(pv, CUSTOMER_INPUT, 100) /\ o.resolved
                            /\ o.value = pv /\ o.source = CUSTOMER_INPUT
            /\ ~r1 /\ ~r2 /\ r3 => o.write = NoRow /\ o.resolved
                                   /\ o.value = ex.value /\ o.source = HUMAN_OVERRIDE
            /\ ~r1 /\ ~r2 /\ ~r3 /\ r4 =>
                   o.write = Row(strip(ov), HUMAN_OVERRIDE, 100) /\ o.resolved
                   /\ o.value = strip(ov) /\ o.source = HUMAN_OVERRIDE
            /\ ~r1 /\ ~r2 /\ ~r3 /\ ~r4 /\ r5 =>
                   o.write = Row(key.default_value, DEFAULT, 100) /\ o.resolved
                   /\ o.value = key.default_value /\ o.source = DEFAULT
            /\ ~r1 /\ ~r2 /\ ~r3 /\ ~r4 /\ ~r5 /\ r6 =>
                   o.write = NoRow /\ ~o.resolved /\ o.ai = "none"
            /\ ~r1 /\ ~r2 /\ ~r3 /\ ~r4 /\ ~r5 /\ ~r6 =>
                   /\ o.ai = IF key.generation_policy = AI_INFER THEN "infer"
                             ELSE IF key.generation_policy = AI_DRAFT THEN "draft"
                             ELSE "none"
                   /\ o.write # NoRow =>
                          /\ o.ai # "none"
                          /\ o.write.source = IF o.ai = "infer" THEN AI_INFERRED
                                              ELSE AI_DRAFTED
            /\ o.ai # "none" => ~(r1 \/ r2 \/ r3 \/ r4 \/ r5 \/ r6)

\* one call met both special cases: a profile value replaced an existing
\* human_override, and an existing human_override was kept over a different
\* override of the call
C2_Witness ==
    /\ \E i \in DOMAIN steps :
          /\ GetRow(existing, steps[i].token).source = HUMAN_OVERRIDE
          /\ steps[i].write # NoRow
          /\ steps[i].write.source = CUSTOMER_INPUT
    /\ \E i \in DOMAIN steps :
          LET t == steps[i].token
          IN  /\ GetRow(existing, t).source = HUMAN_OVERRIDE
              /\ IsNonBlankStr(Get(human_overrides, t))
              /\ strip(Get(human_overrides, t)) # GetRow(existing, t).value
              /\ steps[i].write = NoRow
              /\ steps[i].value = GetRow(existing, t).value

\* one of the rules above the schema lookup applies to the token of pass o
HigherRuleApplies(o) ==
    LET t == o.token
    IN  \/ GetRow(existing, t).source = CUSTOMER_INPUT
        \/ profile_value(customer_profile, t) # None
        \/ GetRow(existing, t).source = HUMAN_OVERRIDE
        \/ IsNonBlankStr(Get(human_overrides, t))
        \/ IsNonBlankStr(GetKey(keys, t).default_value)

\* C23: a pass calls the completion service only when no higher rule applies
\* (no existing customer_input, no profile value, no existing human_override,
\* no override of the call, no non-blank schema default), the token is in the
\* schema and its policy is ai_infer or ai_draft; retrieval (the draft call) is
\* used only for ai_draft.  A pass that no higher rule applies to, for a token
\* that is not in the schema or whose policy is deterministic, makes no AI call,
\* writes nothing and leaves every row as it was.
C23_AiOnlyAsLastResort ==
    /\ [](\A i \in DOMAIN steps :
            LET o == steps[i]
                t == o.token
                policy == GetKey(keys, t).generation_policy
            IN  /\ o.ai # "none" =>
                       /\ ~HigherRuleApplies(o)
                       /\ t \in DOMAIN keys
                       /\ policy \in {AI_INFER, AI_DRAFT}
                /\ o.ai = "draft" => policy = AI_DRAFT
                /\ o.ai = "infer" => policy = AI_INFER
                /\ ~HigherRuleApplies(o)
                   /\ (t \notin DOMAIN keys \/ policy = DETERMINISTIC) =>
                       /\ o.ai = "none"
                       /\ o.write = NoRow
                       /\ ~o.resolved)
    /\ [][ Len(steps') = Len(steps) + 1 =>
              LET o == steps'[Len(steps')]
              IN  ~HigherRuleApplies(o)
                  /\ (o.token \notin DOMAIN keys
                      \/ GetKey(keys, o.token).generation_policy = DETERMINISTIC)
                  => db' = db ]_vars

\* one call made a draft call for an ai_draft token and passed a
\* deterministic-policy token without default; another pass met a token that
\* is not in the schema
C23_Witness ==
    /\ rpc = "returned"
    /\ \E i \in DOMAIN steps : steps[i].ai = "draft" /\ steps[i].write # NoRow
    /\ \E i \in DOMAIN steps :
          /\ ~HigherRuleApplies(steps[i])
          /\ GetKey(keys, steps[i].token).generation_policy = DETERMINISTIC
          /\ steps[i].write = NoRow

\* a pass for a token that is not in the schema, with nothing else to use
C23_WitnessUnknown ==
    \E i \in DOMAIN steps :
        /\ steps[i].rule = "unknown_key"
        /\ ~HigherRuleApplies(steps[i])

\* C24: when the call has returned, every required token that has a
\* persisted row is in the returned value map with exactly the persisted value
\* and in the returned source map with the persisted source.
C24_PersistedTokensReturned ==
    rpc = "returned" =>
        \A t \in Range(required_tokens) :
            db[t] # NoRow =>
                /\ t \in DOMAIN values
                /\ values[t] = db[t].value
                /\ t \in DOMAIN source_by_token
                /\ source_by_token[t] = db[t].source

\* a pass whose AI step raised or gave an empty value
AiStepFailed(o) == o.ai # "none" /\ (o.rule = "ai_failed" \/ o.value = <<>>)

----------------------------------------------------------------------------
(* common/hashing.py, common/chunking.py *)

\* sha256_text: the digest stands for the text it was computed from (no two
\* texts of the model share a digest)
sha256_text(x) == [sha256 |-> x]

Min(a, b) == IF a <= b THEN a ELSE b
Max(a, b) == IF a >= b THEN a ELSE b

\* s[start:end] for 0 <= start, 0 <= end
Slice(s, start, end) == SubSeq(s, start + 1, Min(end, Len(s)))

\* source.split("\n\n"): the separators are found from the left
RECURSIVE split_blank_line(_)
split_blank_line(s) ==
    LET seps == {i \in 1..(Len(s) - 1) : s[i] = NL /\ s[i + 1] = NL}
    IN  IF seps = {} THEN <<s>>
        ELSE LET i == CHOOSE k \in seps : \A j \in seps : k <= j
             IN  <<SubSeq(s, 1, i - 1)>> \o split_blank_line(SubSeq(s, i + 2, Len(s)))

\* "\n\n".join(parts)
RECURSIVE join_blank_line(_)
join_blank_line(parts) ==
    IF parts = <<>> THEN <<>>
    ELSE IF Len(parts) = 1 THEN parts[1]
    ELSE parts[1] \o <<NL, NL>> \o join_blank_line(Tail(parts))

\* line 21: the stripped non-blank parts
paragraphs_of(source) ==
    LET parts == split_blank_line(source)
    IN  SelectSeq([i \in DOMAIN parts |-> strip(parts[i])], LAMBDA part : part # <<>>)

initial_chunks_kept(prior) == prior

\* line 25: chunks starts empty in every call, whatever an earlier call built
initial_chunks(prior) == <<>>

\* lines 29-37: flush_chunk on the loop state (chunks, current, current_len)
flush_chunk(st) ==
    IF st.current = <<>> THEN st
    ELSE LET chunk == strip(join_blank_line(st.current))
         IN  [chunks |-> IF chunk # <<>> THEN Append(st.chunks, chunk) ELSE st.chunks,
              current |-> <<>>, current_len |-> 0]

\* lines 56-65: the windows of a paragraph longer than target_chars
window_end_of_paragraph(paragraph_len, start, config) == paragraph_len

\* line 59: end
window_end(paragraph_len, start, config) ==
    Min(paragraph_len, start + config.target_chars)

RECURSIVE windows(_, _, _, _)
windows(paragraph, start, chunks, config) ==
    LET step == Max(1, config.target_chars - config.overlap_chars)
        end == window_end(Len(paragraph), start, config)
        window == strip(Slice(paragraph, start, end))
        appended == IF window # <<>> THEN Append(chunks, window) ELSE chunks
    IN  IF start >= Len(paragraph) THEN chunks
        ELSE IF end >= Len(paragraph) THEN appended
        ELSE windows(paragraph, start + step, appended, config)

\* lines 40-65: one pass of the loop over the paragraphs
add_paragraph(st, paragraph, config) ==
    LET paragraph_len == Len(paragraph)
        projected_len == st.current_len + (IF st.current # <<>> THEN 2 ELSE 0)
                             + paragraph_len
        flushed == flush_chunk(st)
    IN  IF projected_len <= config.target_chars
        THEN [st EXCEPT !.current = Append(@, paragraph), !.current_len = projected_len]
        ELSE IF paragraph_len <= config.target_chars
        THEN [flushed EXCEPT !.current = <<paragraph>>, !.current_len = paragraph_len]
        ELSE [flushed EXCEPT !.chunks = windows(paragraph, 0, flushed.chunks, config)]

\* line 39: the loop
RECURSIVE add_paragraphs(_, _, _)
add_paragraphs(st, paragraphs, config) ==
    IF paragraphs = <<>> THEN st
    ELSE add_paragraphs(add_paragraph(st, Head(paragraphs), config), Tail(paragraphs),
                        config)

\* lines 16-68: split_text_deterministic; prior is what an earlier call built
split_text_deterministic(text, config, prior) ==
    LET source == strip(IF text = None THEN <<>> ELSE text)
        paragraphs == IF paragraphs_of(source) = <<>> THEN <<source>>
                      ELSE paragraphs_of(source)
    IN  IF source = <<>> THEN <<>>
        ELSE flush_chunk(add_paragraphs([chunks |-> initial_chunks(prior),
                                         current |-> <<>>, current_len |-> 0],
                                        paragraphs, config)).chunks

\* the characters of the texts: a letter, a blank, a line break
TextChars == {"a", SP, NL}

\* the texts a caller may pass: None, or a string of at most MaxText characters
SplitTexts == {None} \cup SeqsUpTo(TextChars, MaxText)

SplitConfigs ==
    [target_chars : 0..MaxTarget, overlap_chars : 0..MaxTarget]

InitSplit ==
    /\ GenerationIdle
    /\ LaterIdle
    /\ ReplaceIdle
    /\ ArchiveIdle
    /\ MergeRowsIdle
    /\ IndexIdle
    /\ IngestIdle
    /\ split_text \in SplitTexts
    /\ split_config \in SplitConfigs
    /\ split_first = <<>>
    /\ split_second = <<>>
    /\ spc = 0

\* indexing/tests.py line 27: the first call
SplitFirst ==
    /\ spc = 0
    /\ split_first' = split_text_deterministic(split_text, split_config, <<>>)
    /\ spc' = 1
    /\ UNCHANGED <<gvars, zvars, dvars, ivars, hvars, avars, qvars, split_text, split_config, split_second>>

\* indexing/tests.py line 28: the second call, after the first
SplitSecond ==
    /\ spc = 1
    /\ split_second' = split_text_deterministic(split_text, split_config, split_first)
    /\ spc' = 2
    /\ UNCHANGED <<gvars, zvars, dvars, ivars, hvars, avars, qvars, split_text, split_config, split_first>>

NextSplit == SplitFirst \/ SplitSecond

SpecSplit == InitSplit /\ [][NextSplit]_vars

\* the content hashes of a chunk sequence
chunk_hashes(chunks) == [i \in DOMAIN chunks |-> sha256_text(chunks[i])]

----------------------------------------------------------------------------
(* common/placeholders.py *)

\* the characters [A-Z0-9_] of the model
TokenChars == {"A", "B"}

\* the length of the longest run of token characters of s that starts at i
RECURSIVE token_run(_, _)
token_run(s, i) ==
    IF i <= Len(s) /\ s[i] \in TokenChars THEN 1 + token_run(s, i + 1) ELSE 0

\* line 7: PLACEHOLDER_PATTERN matches at position i of s ({{, a non-empty
\* run of token characters that the pattern takes whole, }})
match_at(s, i) ==
    LET n == token_run(s, i + 2)
    IN  /\ i + 3 <= Len(s)
        /\ s[i] = "{"
        /\ s[i + 1] = "{"
        /\ n >= 1
        /\ i + 3 + n <= Len(s)
        /\ s[i + 2 + n] = "}"
        /\ s[i + 3 + n] = "}"

\* match.group(1) and the last position of the match that starts at i
match_token(s, i) == SubSeq(s, i + 2, i + 1 + token_run(s, i + 2))
match_end(s, i) == i + 3 + token_run(s, i + 2)

\* lines 10-11: extract_placeholder_tokens from position i on
RECURSIVE extract_from(_, _)
extract_from(s, i) ==
    IF i > Len(s) THEN <<>>
    ELSE IF match_at(s, i)
         THEN <<match_token(s, i)>> \o extract_from(s, match_end(s, i) + 1)
    ELSE extract_from(s, i + 1)

extract_placeholder_tokens_first_only(s) ==
    IF extract_from(s, 1) = <<>> THEN <<>> ELSE <<Head(extract_from(s, 1))>>

extract_placeholder_tokens(s) == extract_from(s, 1)

\* lines 14-15: count_placeholder_tokens, a Counter as a dict
count_placeholder_tokens(s) ==
    LET found == extract_placeholder_tokens(s)
    IN  [t \in Range(found) |-> Cardinality({i \in DOMAIN found : found[i] = t})]

\* the order of str on the tokens of the model
RECURSIVE str_less(_, _)
str_less(a, b) ==
    IF a = <<>> THEN b # <<>>
    ELSE IF b = <<>> THEN FALSE
    ELSE IF Head(a) # Head(b) THEN Head(a) = "A"
    ELSE str_less(Tail(a), Tail(b))

\* sorted(set of str)
RECURSIVE sorted_strs(_)
sorted_strs(S) ==
    IF S = {} THEN <<>>
    ELSE LET least == CHOOSE a \in S : \A b \in S \ {a} : str_less(a, b)
         IN  <<least>> \o sorted_strs(S \ {least})

value_is_missing_only_none(value) == value = None

\* line 24: value is None or value.strip() == ""
value_is_missing(value) == value = None \/ strip(value) = <<>>

\* lines 21-29: re.sub with _replace from position i on: the new text and the
\* set unresolved
RECURSIVE sub_from(_, _, _)
sub_from(s, i, vals) ==
    IF i > Len(s) THEN [text |-> <<>>, unresolved |-> {}]
    ELSE IF match_at(s, i)
         THEN LET token == match_token(s, i)
                  value == Get(vals, token)
                  rest == sub_from(s, match_end(s, i) + 1, vals)
              IN  IF value_is_missing(value)
                  THEN [text |-> SubSeq(s, i, match_end(s, i)) \o rest.text,
                        unresolved |-> {token} \cup rest.unresolved]
                  ELSE [text |-> value \o rest.text, unresolved |-> rest.unresolved]
    ELSE LET rest == sub_from(s, i + 1, vals)
         IN  [text |-> <<s[i]>> \o rest.text, unresolved |-> rest.unresolved]

\* lines 18-29: replace_placeholders
replace_placeholders(s, vals) ==
    [text |-> sub_from(s, 1, vals).text,
     unresolved |-> sorted_strs(sub_from(s, 1, vals).unresolved)]

\* the pieces the texts are made of: two placeholders, a placeholder with a
\* longer token, a lower-case name in braces, and single characters
TextPieces ==
    { <<"{", "{", "A", "}", "}">>, <<"{", "{", "B", "}", "}">>,
      <<"{", "{", "A", "B", "}", "}">>, <<"{", "{", "a", "}", "}">>,
      <<"{">>, <<"}">>, <<"x">> }

RECURSIVE Concat(_)
Concat(pieces) == IF pieces = <<>> THEN <<>> ELSE Head(pieces) \o Concat(Tail(pieces))

\* the texts of at most MaxPieces pieces
PieceTexts == {Concat(ps) : ps \in SeqsUpTo(TextPieces, MaxPieces)}

\* the value maps: A missing, None, blank, padded, or a value that is itself a
\* placeholder; B missing or plain
ValueMaps ==
    {a @@ b :
        a \in {EmptyDict, (<<"A">> :> None), (<<"A">> :> <<SP>>),
               (<<"A">> :> <<SP, "v">>), (<<"A">> :> <<"{", "{", "B", "}", "}">>)},
        b \in {EmptyDict, (<<"B">> :> <<"w">>)}}

InitReplace ==
    /\ GenerationIdle
    /\ LaterIdle
    /\ SplitIdle
    /\ ArchiveIdle
    /\ MergeRowsIdle
    /\ IndexIdle
    /\ IngestIdle
    /\ rp_text \in PieceTexts
    /\ rp_values \in ValueMaps
    /\ rp_result = [text |-> <<>>, unresolved |-> <<>>]
    /\ hpc = "idle"
    /\ ex_text = <<>>
    /\ ex_tokens = <<>>
    /\ ex_counts = EmptyDict
    /\ xpc = "idle"

\* lines 18-29: the call
ReplacePlaceholders ==
    /\ hpc = "idle"
    /\ rp_result' = replace_placeholders(rp_text, rp_values)
    /\ hpc' = "returned"
    /\ UNCHANGED <<gvars, zvars, dvars, ivars, cvars, avars, qvars, rp_text, rp_values,
                   ex_text, ex_tokens, ex_counts, xpc>>

NextReplace == ReplacePlaceholders

SpecReplace == InitReplace /\ [][NextReplace]_vars

\* the positions of the {{TOKEN}} occurrences of s
Occurrences(s) == {i \in DOMAIN s : match_at(s, i)}

\* the occurrence at i is replaced: its value exists and is non-blank
Replaced(s, i, vals) ==
    /\ match_token(s, i) \in DOMAIN vals
    /\ vals[match_token(s, i)] # None
    /\ strip(vals[match_token(s, i)]) # <<>>

\* s with the replaced occurrences among occs spliced out for their values,
\* from the last one to the first
RECURSIVE Spliced(_, _, _)
Spliced(s, occs, vals) ==
    IF occs = {} THEN s
    ELSE LET i == CHOOSE k \in occs : \A j \in occs : j <= k
             t == IF Replaced(s, i, vals)
                  THEN SubSeq(s, 1, i - 1) \o vals[match_token(s, i)]
                           \o SubSeq(s, match_end(s, i) + 1, Len(s))
                  ELSE s
         IN  Spliced(t, occs \ {i}, vals)

InitExtract ==
    /\ GenerationIdle
    /\ LaterIdle
    /\ SplitIdle
    /\ ArchiveIdle
    /\ MergeRowsIdle
    /\ IndexIdle
    /\ IngestIdle
    /\ rp_text = <<>>
    /\ rp_values = EmptyDict
    /\ rp_result = [text |-> <<>>, unresolved |-> <<>>]
    /\ hpc = "idle"
    /\ ex_text \in PieceTexts
    /\ ex_tokens = <<>>
    /\ ex_counts = EmptyDict
    /\ xpc = "idle"

\* indexing/tests.py lines 11-12: the two calls on one text
ExtractAndCount ==
    /\ xpc = "idle"
    /\ ex_tokens' = extract_placeholder_tokens(ex_text)
    /\ ex_counts' = count_placeholder_tokens(ex_text)
    /\ xpc' = "returned"
    /\ UNCHANGED <<gvars, zvars, dvars, ivars, cvars, avars, qvars, rp_text, rp_values,
                   rp_result, hpc, ex_text>>

NextExtract == ExtractAndCount

SpecExtract == InitExtract /\ [][NextExtract]_vars

\* the k-th smallest member of a set of positions
Nth(S, k) == CHOOSE i \in S : Cardinality({j \in S : j <= i}) = k

RECURSIVE SumOver(_, _)
SumOver(f, S) ==
    IF S = {} THEN 0
    ELSE LET t == CHOOSE x \in S : TRUE IN f[t] + SumOver(f, S \ {t})

\* C21: extract_placeholder_tokens returns the tokens of all {{TOKEN}}
\* occurrences in source order, duplicates kept, and count_placeholder_tokens
\* maps each of them to the number of its occurrences, the counts summing to
\* the length of that sequence.
C21_ExtractAndCount ==
    xpc = "returned" =>
        LET occs == Occurrences(ex_text)
        IN  /\ ex_tokens = [k \in 1..Cardinality(occs) |->
                                match_token(ex_text, Nth(occs, k))]
            /\ DOMAIN ex_counts = Range(ex_tokens)
            /\ \A t \in DOMAIN ex_counts :
                   ex_counts[t] = Cardinality({k \in DOMAIN ex_tokens : ex_tokens[k] = t})
            /\ SumOver(ex_counts, DOMAIN ex_counts) = Len(ex_tokens)

\* the text of the test in the tokens of the model: A, then B, then A again
C21_Witness ==
    /\ xpc = "returned"
    /\ ex_tokens = << <<"A">>, <<"B">>, <<"A">> >>
    /\ ex_counts[<<"A">>] = 2
    /\ ex_counts[<<"B">>] = 1

\* C18: replace_placeholders replaces an occurrence of {{TOKEN}} with
\* values[TOKEN] exactly when that value exists and is non-blank after
\* trimming; every other occurrence and all text outside the occurrences stay
\* as they are, and unresolved is exactly the set of the tokens of the
\* occurrences left in place.
C18_ReplaceExactlyResolved ==
    hpc = "returned" =>
        /\ rp_result.text = Spliced(rp_text, Occurrences(rp_text), rp_values)
        /\ Range(rp_result.unresolved) =
               {match_token(rp_text, i) :
                    i \in {k \in Occurrences(rp_text) : ~Replaced(rp_text, k, rp_values)}}
        /\ \A i, j \in DOMAIN rp_result.unresolved :
               i < j => str_less(rp_result.unresolved[i], rp_result.unresolved[j])

\* a text with an occurrence that was replaced by a padded value, one that
\* was left in place for a blank value, and text around them
C18_Witness ==
    /\ hpc = "returned"
    /\ rp_text = <<"x", "{", "{", "B", "}", "}", "{", "{", "A", "}", "}">>
    /\ rp_values = (<<"A">> :> <<SP>>) @@ (<<"B">> :> <<"w">>)
    /\ rp_result.text = <<"x", "w", "{", "{", "A", "}", "}">>
    /\ rp_result.unresolved = <<<<"A">>>>

----------------------------------------------------------------------------
(* generation/services/template_apply.py *)

\* str.lower() on the characters of the model
lower_char(c) ==
    IF c = "D" THEN "d" ELSE IF c = "O" THEN "o" ELSE IF c = "C" THEN "c"
    ELSE IF c = "X" THEN "x" ELSE c

str_lower(s) == [i \in DOMAIN s |-> lower_char(s[i])]

\* str.lstrip(".")
RECURSIVE lstrip_dot(_)
lstrip_dot(s) == IF s # <<>> /\ Head(s) = "." THEN lstrip_dot(Tail(s)) ELSE s

startswith(s, prefix) ==
    Len(prefix) <= Len(s) /\ SubSeq(s, 1, Len(prefix)) = prefix

endswith(s, suffix) ==
    Len(suffix) <= Len(s) /\ SubSeq(s, Len(s) - Len(suffix) + 1, Len(s)) = suffix

\* lines 9-13
OOXML_PART_PREFIXES ==
    (<<"d", "o", "c", "x">> :> {<<"w", "o", "r", "d", "/">>})
        @@ (<<"p", "p", "t", "x">> :> {<<"p", "p", "t", "/">>})
        @@ (<<"x", "l", "s", "x">> :> {<<"x", "l", "/">>})

\* lines 20-26: _is_target_xml
is_target_xml(ext, name) ==
    IF ~endswith(name, <<".", "x", "m", "l">>) THEN FALSE
    ELSE IF ext \notin DOMAIN OOXML_PART_PREFIXES THEN FALSE
    ELSE \E prefix \in OOXML_PART_PREFIXES[ext] : startswith(name, prefix)

\* bytes of the model: an ASCII byte is its character; C3 A9 is the two-byte
\* UTF-8 sequence of the character e-acute; a C3 or an A9 anywhere else is no
\* valid UTF-8
EAcute == "e-acute"

\* line 43: data.decode("utf-8", errors="ignore")
RECURSIVE decode_utf8_ignore(_)
decode_utf8_ignore(data) ==
    IF data = <<>> THEN <<>>
    ELSE IF Len(data) >= 2 /\ data[1] = "C3" /\ data[2] = "A9"
         THEN <<EAcute>> \o decode_utf8_ignore(SubSeq(data, 3, Len(data)))
    ELSE IF Head(data) \in {"C3", "A9"} THEN decode_utf8_ignore(Tail(data))
    ELSE <<Head(data)>> \o decode_utf8_ignore(Tail(data))

\* line 46: replaced.encode("utf-8")
RECURSIVE encode_utf8(_)
encode_utf8(text) ==
    IF text = <<>> THEN <<>>
    ELSE (IF Head(text) = EAcute THEN <<"C3", "A9">> ELSE <<Head(text)>>)
             \o encode_utf8(Tail(text))

\* a member of an archive
Member(filename, data) == [filename |-> filename, data |-> data]

\* line 41: archive_in.read(info.filename): ZipFile finds a member by name, and
\* a name that several members carry leads to the last of them
archive_read(archive, filename) ==
    LET last == CHOOSE i \in DOMAIN archive :
                    /\ archive[i].filename = filename
                    /\ \A j \in DOMAIN archive : archive[j].filename = filename => j <= i
    IN  archive[last].data

\* lines 41-47: the member written for the member info
render_member(archive, info, ext, vals) ==
    LET data == archive_read(archive, info.filename)
    IN  IF is_target_xml(ext, info.filename)
        THEN Member(info.filename,
                    encode_utf8(replace_placeholders(decode_utf8_ignore(data), vals).text))
        ELSE Member(info.filename, data)

\* lines 42-45: the tokens the member adds to unresolved
member_unresolved(archive, info, ext, vals) ==
    IF is_target_xml(ext, info.filename)
    THEN Range(replace_placeholders(
                   decode_utf8_ignore(archive_read(archive, info.filename)),
                   vals).unresolved)
    ELSE {}

\* lines 29-48: apply_placeholders_to_ooxml_bytes on the members of source_bytes
apply_placeholders_to_ooxml_bytes(archive, ext, vals) ==
    LET e == lstrip_dot(str_lower(ext))
    IN  IF e \notin DOMAIN OOXML_PART_PREFIXES
        THEN [archive |-> archive, unresolved |-> <<>>]
        ELSE [archive |-> [i \in DOMAIN archive |-> render_member(archive, archive[i], e, vals)],
              unresolved |->
                  sorted_strs(UNION {member_unresolved(archive, archive[i], e, vals) :
                                         i \in DOMAIN archive})]

\* member names: markup under word/, a binary part under word/, markup
\* outside the content root, markup under ppt/
MemberNames ==
    { <<"w", "o", "r", "d", "/", "d", ".", "x", "m", "l">>,
      <<"w", "o", "r", "d", "/", "m", ".", "b", "i", "n">>,
      <<"d", "o", "c", "/", "a", ".", "x", "m", "l">>,
      <<"p", "p", "t", "/", "s", ".", "x", "m", "l">> }

\* member contents: plain text, a placeholder, a two-byte character, a byte
\* sequence that is no UTF-8
MemberData ==
    { <<"x">>, <<"{", "{", "A", "}", "}">>, <<"C3", "A9">>, <<"C3", "x">> }

Archives ==
    SeqsUpTo({Member(n, d) : n \in MemberNames, d \in MemberData}, MaxMembers)

ArchiveExts ==
    { <<"d", "o", "c", "x">>, <<".", "D", "O", "C", "X">>, <<"p", "p", "t", "x">>,
      <<"p", "d", "f">> }

ArchiveValues == {EmptyDict, (<<"A">> :> <<"v">>)}

InitArchive ==
    /\ GenerationIdle
    /\ LaterIdle
    /\ SplitIdle
    /\ ReplaceIdle
    /\ MergeRowsIdle
    /\ IndexIdle
    /\ IngestIdle
    /\ source_archive \in Archives
    /\ archive_ext \in ArchiveExts
    /\ archive_values \in ArchiveValues
    /\ applied = [archive |-> <<>>, unresolved |-> <<>>]
    /\ apc = "idle"

\* lines 29-48: the call
ApplyPlaceholders ==
    /\ apc = "idle"
    /\ applied' = apply_placeholders_to_ooxml_bytes(source_archive, archive_ext,
                                                     archive_values)
    /\ apc' = "returned"
    /\ UNCHANGED <<gvars, zvars, dvars, ivars, cvars, hvars, qvars, source_archive, archive_ext,
                   archive_values>>

NextArchive == ApplyPlaceholders

SpecArchive == InitArchive /\ [][NextArchive]_vars

\* the member's name ends in .xml and starts with the content-root prefix of
\* the format
Qualifying(member) ==
    is_target_xml(lstrip_dot(str_lower(archive_ext)), member.filename)

\* C16: the output archive has the member names of the input in the same
\* order, and every part that is not markup under the format's content root
\* has byte-identical content in the output, for any value map.
C16_OtherPartsUntouched ==
    apc = "returned" =>
        /\ Len(applied.archive) = Len(source_archive)
        /\ \A i \in DOMAIN source_archive :
              /\ applied.archive[i].filename = source_archive[i].filename
              /\ ~Qualifying(source_archive[i]) =>
                     applied.archive[i].data = source_archive[i].data

\* no two members of the input archive have the same name
DistinctNames ==
    \A i, j \in DOMAIN source_archive :
        source_archive[i].filename = source_archive[j].filename => i = j

\* C17: when no qualifying part holds a matching token, the qualifying parts
\* come back byte-identical too, whatever their bytes, and unresolved is empty.
C17_NoTokenRoundTrip ==
    (/\ apc = "returned"
     /\ DistinctNames
     /\ \A i \in DOMAIN source_archive :
           Qualifying(source_archive[i]) =>
               /\ extract_placeholder_tokens(source_archive[i].data) = <<>>
               /\ extract_placeholder_tokens(
                      decode_utf8_ignore(source_archive[i].data)) = <<>>)
        => /\ \A i \in DOMAIN source_archive :
                 applied.archive[i].data = source_archive[i].data
           /\ applied.unresolved = <<>>

----------------------------------------------------------------------------
(* rag/services/retrieval.py: rrf_merge *)

\* line 146: k
RrfK == 60

\* a score is kept exactly, as numerator and denominator
Frac(n, d) == [num |-> n, den |-> d]
frac_add(x, y) == Frac(x.num * y.den + y.num * x.den, x.den * y.den)
frac_less(x, y) == x.num * y.den < y.num * x.den
frac_eq(x, y) == x.num * y.den = y.num * x.den

\* the chunk ids of the model, in the order of str
ChunkIds == <<"a", "b", "c">>
id_less(x, y) ==
    (CHOOSE i \in DOMAIN ChunkIds : ChunkIds[i] = x)
        < (CHOOSE i \in DOMAIN ChunkIds : ChunkIds[i] = y)

\* a row of a result list
RowOf(chunk_id, origin) == [chunk_id |-> chunk_id, origin |-> origin]

\* lines 151-159: one of the two loops, from rank on; acc is (scores, values)
RECURSIVE add_ranks(_, _, _)
add_ranks(acc, rows, rank) ==
    IF rank > Len(rows) THEN acc
    ELSE LET chunk_id == rows[rank].chunk_id
             before == IF chunk_id \in DOMAIN acc.scores THEN acc.scores[chunk_id]
                       ELSE Frac(0, 1)
         IN  add_ranks([scores |-> Put(acc.scores, chunk_id,
                                        frac_add(before, Frac(1, RrfK + rank))),
                        values |-> Put(acc.values, chunk_id, rows[rank])],
                       rows, rank + 1)

sort_key_less_id_descending(s1, id1, s2, id2) ==
    frac_less(s2, s1) \/ (frac_eq(s1, s2) /\ id_less(id2, id1))

\* line 161: the key (-score, chunk_id) of one item is less than the other's
sort_key_less(s1, id1, s2, id2) ==
    frac_less(s2, s1) \/ (frac_eq(s1, s2) /\ id_less(id1, id2))

\* line 161: sorted(scores.items(), key=...), as the list of the chunk ids
RECURSIVE sorted_by_key(_, _)
sorted_by_key(scores, ids) ==
    IF ids = {} THEN <<>>
    ELSE LET first == CHOOSE x \in ids :
                          \A y \in ids \ {x} :
                              sort_key_less(scores[x], x, scores[y], y)
         IN  <<first>> \o sorted_by_key(scores, ids \ {first})

\* lines 141-162: rrf_merge
rrf_merge(vrows, frows, n) ==
    LET acc == add_ranks(add_ranks([scores |-> EmptyDict, values |-> EmptyDict],
                                   vrows, 1),
                         frows, 1)
        ordered == sorted_by_key(acc.scores, DOMAIN acc.scores)
    IN  [i \in 1..Min(n, Len(ordered)) |-> acc.values[ordered[i]]]

\* the result lists a query may give: at most MaxRows rows, no chunk twice
IsInjective(seq) ==
    \A i, j \in DOMAIN seq : seq[i] = seq[j] => i = j

RowLists(origin) ==
    {[i \in DOMAIN ids |-> RowOf(ids[i], origin)] :
        ids \in {l \in SeqsUpTo(Range(ChunkIds), MaxRows) : IsInjective(l)}}

InitMergeRows ==
    /\ GenerationIdle
    /\ LaterIdle
    /\ SplitIdle
    /\ ReplaceIdle
    /\ ArchiveIdle
    /\ IndexIdle
    /\ IngestIdle
    /\ vector_rows \in RowLists("vector")
    /\ fts_rows \in RowLists("fts")
    /\ top_n \in 1..MaxRows
    /\ merged_first = <<>>
    /\ merged_second = <<>>
    /\ qpc = 0

\* rag/tests.py line 17: the first call
MergeFirst ==
    /\ qpc = 0
    /\ merged_first' = rrf_merge(vector_rows, fts_rows, top_n)
    /\ qpc' = 1
    /\ UNCHANGED <<gvars, zvars, dvars, ivars, cvars, hvars, avars, vector_rows, fts_rows, top_n,
                   merged_second>>

\* rag/tests.py line 18: the second call
MergeSecond ==
    /\ qpc = 1
    /\ merged_second' = rrf_merge(vector_rows, fts_rows, top_n)
    /\ qpc' = 2
    /\ UNCHANGED <<gvars, zvars, dvars, ivars, cvars, hvars, avars, vector_rows, fts_rows, top_n,
                   merged_first>>

NextMergeRows == MergeFirst \/ MergeSecond

SpecMergeRows == InitMergeRows /\ [][NextMergeRows]_vars

\* the 1-based rank of the chunk in the list, 0 when the list lacks it
RankIn(rows, chunk_id) ==
    IF \E i \in DOMAIN rows : rows[i].chunk_id = chunk_id
    THEN CHOOSE i \in DOMAIN rows : rows[i].chunk_id = chunk_id
    ELSE 0

\* the sum of 1/(k + r) over the lists that contain the chunk
RrfScore(chunk_id) ==
    LET v == RankIn(vector_rows, chunk_id)
        f == RankIn(fts_rows, chunk_id)
    IN  frac_add(IF v > 0 THEN Frac(1, RrfK + v) ELSE Frac(0, 1),
                 IF f > 0 THEN Frac(1, RrfK + f) ELSE Frac(0, 1))

Candidates ==
    {vector_rows[i].chunk_id : i \in DOMAIN vector_rows}
        \cup {fts_rows[i].chunk_id : i \in DOMAIN fts_rows}

\* x comes before y: higher score, or equal score and lower id
Before(x, y) ==
    \/ frac_less(RrfScore(y), RrfScore(x))
    \/ frac_eq(RrfScore(x), RrfScore(y)) /\ id_less(x, y)

\* C19: each candidate has the sum of 1/(k + r) over the lists that contain
\* it; at most top_n candidates come back, each once, in descending score
\* with ties broken by ascending id; the same lists give the same ordering,
\* and vector = [b, a], lexical = [a, b] gives [a, b].
C19_RrfOrder ==
    /\ qpc >= 1 =>
          LET ids == [i \in DOMAIN merged_first |-> merged_first[i].chunk_id]
          IN  /\ Len(ids) = Min(top_n, Cardinality(Candidates))
              /\ Range(ids) \subseteq Candidates
              /\ IsInjective(ids)
              /\ \A i \in 1..(Len(ids) - 1) : Before(ids[i], ids[i + 1])
              /\ \A x \in Range(ids), y \in Candidates \ Range(ids) : Before(x, y)
              /\ (/\ vector_rows = <<RowOf("b", "vector"), RowOf("a", "vector")>>
                  /\ fts_rows = <<RowOf("a", "fts"), RowOf("b", "fts")>>
                  /\ top_n >= 2) => ids = <<"a", "b">>
    /\ qpc = 2 => merged_second = merged_first

\* both calls were made on vector = [b, a], lexical = [a, b] and gave [a, b]
C19_Witness ==
    /\ qpc = 2
    /\ vector_rows = <<RowOf("b", "vector"), RowOf("a", "vector")>>
    /\ fts_rows = <<RowOf("a", "fts"), RowOf("b", "fts")>>
    /\ [i \in DOMAIN merged_second |-> merged_second[i].chunk_id] = <<"a", "b">>

----------------------------------------------------------------------------
(* indexing/services/ingestion.py: index_existing_asset *)

\* the document the calls index, and another document of the manual
Asset1 == "asset1"
Asset2 == "asset2"

\* rag/models.py line 132: embedding is null until _apply_embeddings sets it
Embedding(text) == <<"embedding">> \o text

PlaceholderRow(asset_id, token, occurrences, status) ==
    [id |-> sha256_text(<<asset_id, token>>), asset |-> asset_id, token |-> token,
     occurrences |-> occurrences, status |-> status]

ChunkRow(asset_id, index, text, embedding) ==
    [id |-> sha256_text(<<asset_id, index, sha256_text(text)>>), asset |-> asset_id,
     chunk_index |-> index, text |-> text, embedding |-> embedding]

\* Model.objects.create: the primary key is unique, and PostgreSQL refuses a
\* token longer than its column
create(table, row) ==
    IF (\E r \in table : r.id = row.id) \/ Len(row.token) > TokenMaxLength
    THEN [raised |-> TRUE, table |-> table]
    ELSE [raised |-> FALSE, table |-> table \cup {row}]

stale_placeholders_none(table, asset_id) == {}

\* line 153: RagTemplatePlaceholder.objects.filter(asset=asset)
stale_placeholders(table, asset_id) == {r \in table : r.asset = asset_id}

\* lines 163-181: the loop over the sorted tokens, from the i-th on
RECURSIVE create_placeholders(_, _, _, _, _, _)
create_placeholders(st, asset_id, tokens, counter, known, i) ==
    IF i > Len(tokens) \/ st.raised THEN st
    ELSE LET token == tokens[i]
             status == IF token \in known THEN "KNOWN" ELSE "UNKNOWN"
             made == create(st.table,
                            PlaceholderRow(asset_id, token, counter[token], status))
         IN  create_placeholders(
                 [raised |-> made.raised, table |-> made.table,
                  created |-> IF made.raised THEN st.created ELSE st.created + 1,
                  unknown |-> IF status = "UNKNOWN" THEN st.unknown + 1
                              ELSE st.unknown],
                 asset_id, tokens, counter, known, i + 1)

\* lines 147-182: _store_placeholders
store_placeholders(table, asset_id, placeholder_source_text, known) ==
    LET token_counter == count_placeholder_tokens(placeholder_source_text)
    IN  create_placeholders(
            [raised |-> FALSE, table |-> table \ stale_placeholders(table, asset_id),
             created |-> 0, unknown |-> 0],
            asset_id, sorted_strs(DOMAIN token_counter), token_counter, known, 1)

\* lines 222-231: RagDocumentChunk.objects.update_or_create(id=chunk_id, defaults=...)
\* under the constraint rag_chunk_asset_index_uniq (rag/models.py lines 138-143):
\* the row of that id is updated, its embedding kept; without one a row is
\* inserted, and the insert fails when the document has another row at that index
update_or_create(table, asset_id, index, text) ==
    LET row == ChunkRow(asset_id, index, text, None)
        clash(others) == \E r \in others : r.asset = asset_id /\ r.chunk_index = index
    IN  IF \E r \in table : r.id = row.id
        THEN LET old == CHOOSE r \in table : r.id = row.id
                 updated == [old EXCEPT !.asset = asset_id, !.chunk_index = index,
                                        !.text = text]
             IN  IF clash(table \ {old})
                 THEN [raised |-> TRUE, table |-> table, id |-> row.id]
                 ELSE [raised |-> FALSE, table |-> (table \ {old}) \cup {updated},
                       id |-> row.id]
        ELSE IF clash(table)
             THEN [raised |-> TRUE, table |-> table, id |-> row.id]
             ELSE [raised |-> FALSE, table |-> table \cup {row}, id |-> row.id]

\* lines 216-232: the loop over enumerate(chunks), from the i-th chunk on
RECURSIVE persist_from(_, _, _, _)
persist_from(st, asset_id, chunks, i) ==
    IF i > Len(chunks) \/ st.raised THEN st
    ELSE LET done == update_or_create(st.table, asset_id, i - 1, chunks[i])
         IN  persist_from([raised |-> done.raised, table |-> done.table,
                           rows |-> IF done.raised THEN st.rows
                                    ELSE Append(st.rows, done.id)],
                          asset_id, chunks, i + 1)

\* lines 185-234: _persist_chunks
persist_chunks(table, asset_id, config, extracted_text, force) ==
    LET chunks == split_text_deterministic(extracted_text, config, <<>>)
        kept == IF force THEN {r \in table : r.asset # asset_id} ELSE table
    IN  persist_from([raised |-> FALSE, table |-> kept, rows |-> <<>>],
                     asset_id, chunks, 1)

\* extract_text_for_path raised
Unreadable == <<"<unreadable>">>

\* lines 262-301: index_existing_asset on the two tables; the text of the
\* document stands for what extract_text_for_path reads from its file.  An
\* error of create leaves the transaction of the caller marked for rollback
\* (broken); an error of update_or_create is undone to its own savepoint.
index_existing_asset(ph_rows, chunk_rows, asset_id, text, known, config, force) ==
    IF text = Unreadable
    THEN [raised |-> TRUE, stored |-> FALSE, broken |-> FALSE,
          placeholders |-> ph_rows, chunks |-> chunk_rows, rows |-> <<>>]
    ELSE LET stored == store_placeholders(ph_rows, asset_id, text, known)
             persisted == persist_chunks(chunk_rows, asset_id, config, text, force)
         IN  IF stored.raised
             THEN [raised |-> TRUE, stored |-> FALSE, broken |-> TRUE,
                   placeholders |-> stored.table, chunks |-> chunk_rows, rows |-> <<>>]
             ELSE [raised |-> persisted.raised, stored |-> TRUE, broken |-> FALSE,
                   placeholders |-> stored.table, chunks |-> persisted.table,
                   rows |-> persisted.rows]

\* lines 252-259: _apply_embeddings on the rows of the given ids
apply_embeddings(table, ids) ==
    {IF r.id \in Range(ids) THEN [r EXCEPT !.embedding = Embedding(r.text)] ELSE r :
        r \in table}

\* the texts of the document over its indexings
DocTexts ==
    { <<>>,
      <<"{", "{", "A", "}", "}", SP, "{", "{", "A", "}", "}">>,
      <<"{", "{", "B", "}", "}">>,
      <<"{", "{", "A", "}", "}", NL, NL, "{", "{", "B", "}", "}">> }

\* the chunking configurations: windows of MaxTarget characters, or chunks of
\* up to DocTarget characters
IndexConfigs ==
    { [target_chars |-> MaxTarget, overlap_chars |-> 0],
      [target_chars |-> DocTarget, overlap_chars |-> 0] }

\* the tokens the package schema may hold
KnownKeySets == { {}, {<<"A">>} }

InitIndex ==
    /\ GenerationIdle
    /\ LaterIdle
    /\ IngestIdle
    /\ SplitIdle
    /\ ReplaceIdle
    /\ ArchiveIdle
    /\ MergeRowsIdle
    /\ ph_table = {PlaceholderRow(Asset2, <<"A">>, 1, "UNKNOWN")}
    /\ chunk_table = {ChunkRow(Asset2, 0, <<"a">>, Embedding(<<"a">>))}
    /\ ph_before = ph_table
    /\ rows_before = chunk_table
    /\ indexed_text = None
    /\ known_keys = {}
    /\ index_config = None
    /\ index_force = FALSE
    /\ index_rows = NotReturned
    /\ ids_before = NotReturned
    /\ repeated = FALSE

\* lines 262-301: one call of index_existing_asset for the document
IndexAsset ==
    \E text \in DocTexts \cup {Unreadable}, config \in IndexConfigs,
       known \in KnownKeySets, force \in BOOLEAN :
        LET done == index_existing_asset(ph_table, chunk_table, Asset1, text, known,
                                         config, force)
        IN  /\ ph_before' = ph_table
            /\ rows_before' = chunk_table
            /\ ph_table' = done.placeholders
            /\ chunk_table' = done.chunks
            /\ indexed_text' = IF done.stored THEN text ELSE indexed_text
            /\ known_keys' = IF done.stored THEN known ELSE known_keys
            /\ index_config' = config
            /\ index_force' = force
            /\ ids_before' = index_rows
            /\ index_rows' = IF done.raised THEN NotReturned ELSE Returned(done.rows)
            /\ repeated' = (/\ ~index_rows.raised
                            /\ text = indexed_text
                            /\ config = index_config)
            /\ UNCHANGED <<gvars, zvars, cvars, hvars, avars, qvars, ivars>>

\* lines 252-259: _apply_embeddings on the rows the last call returned
EmbedRows ==
    /\ ~index_rows.raised
    /\ index_rows.ids # <<>>
    /\ chunk_table' = apply_embeddings(chunk_table, index_rows.ids)
    /\ UNCHANGED <<gvars, zvars, cvars, hvars, avars, qvars, ivars, ph_table, ph_before, rows_before,
                   indexed_text, known_keys, index_config, index_force, index_rows,
                   ids_before, repeated>>

NextIndex == IndexAsset \/ EmbedRows

SpecIndex == InitIndex /\ [][NextIndex]_vars

\* the rows of one document
RowsOf(table, asset_id) == {r \in table : r.asset = asset_id}

\* C14: the placeholder records of the document are exactly the tokens of the
\* text indexed last, each once, with its count and its status against the
\* schema; the records of other documents are untouched.
C14_PlaceholderSnapshot ==
    indexed_text # None =>
        LET mine == RowsOf(ph_table, Asset1)
            counter == count_placeholder_tokens(indexed_text)
        IN  /\ {r.token : r \in mine} = DOMAIN counter
            /\ \A r \in mine :
                  /\ r.occurrences = counter[r.token]
                  /\ r.status = IF r.token \in known_keys THEN "KNOWN" ELSE "UNKNOWN"
            /\ \A r1, r2 \in mine : r1.token = r2.token => r1 = r2
            /\ RowsOf(ph_table, Asset2) = RowsOf(ph_before, Asset2)

\* the earlier indexing left a record of A, and the text indexed last holds B
\* twice over no A
C14_Witness ==
    /\ \E r \in RowsOf(ph_before, Asset1) : r.token = <<"A">>
    /\ indexed_text # None
    /\ DOMAIN count_placeholder_tokens(indexed_text) = {<<"B">>}
    /\ {r.token : r \in RowsOf(ph_table, Asset1)} = {<<"B">>}

\* a row without what _apply_embeddings writes
Identity(r) == [id |-> r.id, asset |-> r.asset, chunk_index |-> r.chunk_index,
                text |-> r.text]

\* C15: indexing the document again with the same text and chunking
\* configuration returns the chunk ids of the indexing before and leaves its
\* set of chunk rows as it was, no row twice at an index, with force on or off.
C15_ReindexIdempotent ==
    repeated =>
        /\ ~index_rows.raised
        /\ index_rows = ids_before
        /\ {Identity(r) : r \in chunk_table} = {Identity(r) : r \in rows_before}
        /\ \A r1, r2 \in RowsOf(chunk_table, Asset1) :
              r1.chunk_index = r2.chunk_index => r1 = r2
        /\ IsInjective(index_rows.ids)

----------------------------------------------------------------------------
(* indexing/services/ingestion.py: ingest_package_for_manual *)

\* the assets of the manual, in the order of the loop
Asset3 == "asset3"
AssetOf(i) == <<Asset1, Asset2, Asset3>>[i]

\* a text whose one placeholder is longer than the token column
Oversized == <<"{", "{">> \o [i \in 1..(TokenMaxLength + 1) |-> "A"] \o <<"}", "}">>

\* what the files of the assets may hold
IngestTexts == { <<>>, <<"a">>, Unreadable, Oversized }

\* get_package_config(...)["chunking"]
IngestConfig == [target_chars |-> DocTarget, overlap_chars |-> 0]

\* the chunk rows an earlier run may have left for the first asset
EarlierChunks ==
    { {},
      {ChunkRow(Asset1, 0, <<"a">>, Embedding(<<"a">>))},
      {ChunkRow(Asset1, 0, <<"b">>, Embedding(<<"b">>))} }

rolled_back_nothing(at_start, now) == now

\* line 361: @transaction.atomic, when the call leaves by an exception
rolled_back(at_start, now) == at_start

InitIngest ==
    /\ GenerationIdle
    /\ LaterIdle
    /\ SplitIdle
    /\ ReplaceIdle
    /\ ArchiveIdle
    /\ MergeRowsIdle
    /\ ph_table = {}
    /\ chunk_table \in EarlierChunks
    /\ ph_before = {}
    /\ rows_before = {}
    /\ indexed_text = None
    /\ known_keys = {}
    /\ index_config = None
    /\ index_force = FALSE
    /\ index_rows = NotReturned
    /\ ids_before = NotReturned
    /\ repeated = FALSE
    /\ ingest_docs \in SeqsUpTo(IngestTexts, MaxDocs) \ {<<>>}
    /\ ingest_force \in BOOLEAN
    /\ tx_chunks = chunk_table
    /\ tx_placeholders = ph_table
    /\ asset_i = 0
    /\ extraction_errors = 0
    /\ chunks_total = 0
    /\ processed_chunks = <<>>
    /\ ipc = "called"
    /\ abort_cause = "none"

\* the call leaves by an exception: the transaction is rolled back
IngestRaise(cause, errors) ==
    /\ ipc' = "raised"
    /\ abort_cause' = cause
    /\ extraction_errors' = errors
    /\ chunk_table' = rolled_back(tx_chunks, chunk_table)
    /\ ph_table' = rolled_back(tx_placeholders, ph_table)
    /\ UNCHANGED <<gvars, zvars, cvars, hvars, avars, qvars, index_call_vars, ingest_docs,
                   ingest_force, tx_chunks, tx_placeholders, asset_i, chunks_total,
                   processed_chunks>>

\* lines 363-377: the configuration is read and every source file copied
IngestCopied ==
    /\ ipc = "called"
    /\ ipc' = "indexing"
    /\ asset_i' = 1
    /\ UNCHANGED <<gvars, zvars, cvars, hvars, avars, qvars, dvars, ingest_docs, ingest_force,
                   tx_chunks, tx_placeholders, extraction_errors, chunks_total,
                   processed_chunks, abort_cause>>

\* lines 326-328, in the call of line 370: storage.read_bytes, write_bytes or
\* file_sha256 raises for one source file, outside every try
IngestCopyRaise ==
    /\ ipc = "called"
    /\ IngestRaise("copy", extraction_errors)

InAssetLoop == ipc = "indexing" /\ asset_i <= Len(ingest_docs)

IndexedNow ==
    index_existing_asset(ph_table, chunk_table, AssetOf(asset_i), ingest_docs[asset_i],
                         {}, IngestConfig, ingest_force)

\* lines 391-400: the asset is indexed
IngestAssetIndexed ==
    /\ InAssetLoop
    /\ ~IndexedNow.raised
    /\ ph_table' = IndexedNow.placeholders
    /\ chunk_table' = IndexedNow.chunks
    /\ processed_chunks' = processed_chunks \o IndexedNow.rows
    /\ chunks_total' = chunks_total + Len(IndexedNow.rows)
    /\ asset_i' = asset_i + 1
    /\ UNCHANGED <<gvars, zvars, cvars, hvars, avars, qvars, index_call_vars, ingest_docs,
                   ingest_force, tx_chunks, tx_placeholders, extraction_errors, ipc,
                   abort_cause>>

\* lines 401-413: index_existing_asset raised and the event is written
IngestAssetFailed ==
    /\ InAssetLoop
    /\ IndexedNow.raised
    /\ ~IndexedNow.broken
    /\ ph_table' = IndexedNow.placeholders
    /\ chunk_table' = IndexedNow.chunks
    /\ extraction_errors' = extraction_errors + 1
    /\ asset_i' = asset_i + 1
    /\ UNCHANGED <<gvars, zvars, cvars, hvars, avars, qvars, index_call_vars, ingest_docs,
                   ingest_force, tx_chunks, tx_placeholders, chunks_total,
                   processed_chunks, ipc, abort_cause>>

\* lines 401-413: index_existing_asset raised a database error, and emit_event
\* raises in the transaction it left marked for rollback
IngestEventRaise ==
    /\ InAssetLoop
    /\ IndexedNow.raised
    /\ IndexedNow.broken
    /\ IngestRaise("event", extraction_errors + 1)

\* lines 415-416
IngestZeroChunks ==
    /\ ipc = "indexing"
    /\ asset_i > Len(ingest_docs)
    /\ chunks_total = 0
    /\ IngestRaise("zero_chunks", extraction_errors)

\* lines 418-421: _apply_embeddings raised
IngestEmbeddingRaise ==
    /\ ipc = "indexing"
    /\ asset_i > Len(ingest_docs)
    /\ chunks_total # 0
    /\ IngestRaise("embedding", extraction_errors)

\* lines 418-436: the embeddings are written and the call returns
IngestReturn ==
    /\ ipc = "indexing"
    /\ asset_i > Len(ingest_docs)
    /\ chunks_total # 0
    /\ chunk_table' = apply_embeddings(chunk_table, processed_chunks)
    /\ ipc' = "returned"
    /\ UNCHANGED <<gvars, zvars, cvars, hvars, avars, qvars, index_call_vars, ph_table,
                   ingest_docs, ingest_force, tx_chunks, tx_placeholders, asset_i,
                   extraction_errors, chunks_total, processed_chunks, abort_cause>>

NextIngest ==
    \/ IngestCopied
    \/ IngestCopyRaise
    \/ IngestAssetIndexed
    \/ IngestAssetFailed
    \/ IngestEventRaise
    \/ IngestZeroChunks
    \/ IngestEmbeddingRaise
    \/ IngestReturn

SpecIngest == InitIngest /\ [][NextIngest]_vars

\* C12: the call raises only for zero chunks or a failed embedding call; a
\* document that fails to index adds 1 to extraction_errors and the loop
\* goes on to every remaining document.
C12_OnlyFatalAbort ==
    /\ ipc = "raised" => abort_cause \in {"zero_chunks", "embedding"}
    /\ ipc \in {"raised", "returned"} => asset_i > Len(ingest_docs)
    /\ ipc = "returned" => chunks_total # 0

\* C13: when the embedding call fails, the chunk rows are those the table
\* held before the run, embeddings included.
C13_EmbeddingFailureLeavesNoRow ==
    (ipc = "raised" /\ abort_cause = "embedding") => chunk_table = tx_chunks

\* the embedding call failed after the run had written a row the table did
\* not hold before
C13_Witness ==
    /\ ipc = "raised"
    /\ abort_cause = "embedding"
    /\ \E i \in DOMAIN processed_chunks :
          \A r \in tx_chunks : r.id # processed_chunks[i]
    /\ chunk_table = tx_chunks

----------------------------------------------------------------------------
(* common/openai_client.py: chat_json, request by request *)

\* what a completion request may give: a JSON object, text that is no JSON,
\* JSON whose root is no object, no content at all (None or ""), or an
\* exception of the client
ResponseKinds == {"object", "malformed", "non_object", "no_content", "request_failed"}

\* line 60: message = response.choices[0].message.content or "{}"
message_of(kind) == IF kind = "no_content" THEN "object_empty" ELSE kind

\* lines 62-64: json.loads(_strip_fence(message)) gives a dict
parses_as_object(message) == message \in {"object", "object_empty"}

InitChat ==
    /\ GenerationIdle
    /\ SplitIdle
    /\ ReplaceIdle
    /\ ArchiveIdle
    /\ MergeRowsIdle
    /\ IndexIdle
    /\ IngestIdle
    /\ RaceIdle
    /\ TaskIdle
    /\ chat_retries \in 0..MaxRetries
    /\ chat_requests = 0
    /\ chat_responses = <<>>
    /\ chat_result = "none"
    /\ kpc = "calling"

\* line 50: the loop has an attempt left
InChatLoop == kpc = "calling" /\ chat_requests < chat_retries + 1

\* lines 51-59: the request raises; it is outside the try of line 61
ChatRequestRaise ==
    /\ InChatLoop
    /\ chat_requests' = chat_requests + 1
    /\ chat_responses' = Append(chat_responses, "request_failed")
    /\ kpc' = "propagated"
    /\ UNCHANGED <<gvars, cvars, hvars, avars, qvars, dvars, ivars, lvars, chat_retries,
                   chat_result>>

\* lines 51-65: the request is answered and the message parses as an object
ChatReturn ==
    /\ InChatLoop
    /\ \E kind \in ResponseKinds \ {"request_failed"} :
          /\ parses_as_object(message_of(kind))
          /\ chat_responses' = Append(chat_responses, kind)
          /\ chat_result' = message_of(kind)
    /\ chat_requests' = chat_requests + 1
    /\ kpc' = "returned"
    /\ UNCHANGED <<gvars, cvars, hvars, avars, qvars, dvars, ivars, lvars, chat_retries>>

\* lines 51-67: the request is answered and the message does not parse
ChatRetry ==
    /\ InChatLoop
    /\ \E kind \in ResponseKinds \ {"request_failed"} :
          /\ ~parses_as_object(message_of(kind))
          /\ chat_responses' = Append(chat_responses, kind)
    /\ chat_requests' = chat_requests + 1
    /\ UNCHANGED <<gvars, cvars, hvars, avars, qvars, dvars, ivars, lvars, chat_retries,
                   chat_result, kpc>>

\* line 69: the loop ran out
ChatRaise ==
    /\ kpc = "calling"
    /\ chat_requests >= chat_retries + 1
    /\ kpc' = "raised"
    /\ UNCHANGED <<gvars, cvars, hvars, avars, qvars, dvars, ivars, lvars, chat_retries,
                   chat_requests, chat_responses, chat_result>>

NextChat == ChatRequestRaise \/ ChatReturn \/ ChatRetry \/ ChatRaise

SpecChat == InitChat /\ [][NextChat]_vars

\* the response is text that does not parse as a JSON object
NotAnObject(kind) == kind \in {"malformed", "non_object", "no_content"}

\* C26: at most retries + 1 requests; the call returns on the first response
\* that parses as a JSON object, asks again only after a response that does
\* not, raises once retries + 1 responses did not, and lets a failed request
\* propagate at once.
C26_BoundedRetries ==
    /\ chat_requests <= chat_retries + 1
    /\ chat_requests = Len(chat_responses)
    /\ \A i \in 1..(Len(chat_responses) - 1) : NotAnObject(chat_responses[i])
    /\ kpc = "returned" => chat_responses[Len(chat_responses)] = "object"
    /\ kpc = "calling" => \A i \in DOMAIN chat_responses : NotAnObject(chat_responses[i])
    /\ kpc = "raised" =>
          /\ chat_requests = chat_retries + 1
          /\ \A i \in DOMAIN chat_responses : NotAnObject(chat_responses[i])
    /\ kpc = "propagated" => chat_responses[Len(chat_responses)] = "request_failed"

----------------------------------------------------------------------------
(* generation/services/execution.py: events and per-output overrides *)

PerFileMessages == {"File generated", "File generation failed"}

\* the message of the per-file event of a file result
MessageFor(result) ==
    IF result.status = "generated" THEN "File generated" ELSE "File generation failed"

\* C29: the events of a run are 'Generation plan ready', then 'Variables
\* resolved', then the per-file events; every file result of the run, generated
\* or error, has exactly one per-file event of its kind that carries it.
C29_EventsMatchResults ==
    /\ \A j \in DOMAIN events :
          /\ j = 1 <=> events[j].message = "Generation plan ready"
          /\ j = 2 <=> events[j].message = "Variables resolved"
          /\ j >= 3 <=> events[j].message \in PerFileMessages
    /\ file_results # <<>> => Len(events) >= 2
    /\ \A i \in DOMAIN file_results :
          Cardinality({j \in DOMAIN events :
                          /\ events[j].message = MessageFor(file_results[i])
                          /\ events[j].payload = file_results[i]})
              = Cardinality({k \in DOMAIN file_results : file_results[k] = file_results[i]})

\* the value the per-output overrides of the model carry
FileOverrideValue == <<"f">>

\* C27: a per-output override reaches only the effective map of the output it
\* is keyed to; the renders leave the resolved base map as it is, and no
\* ResolvedValue row is written from a per-output override.
C27_OverrideStaysWithItsOutput ==
    /\ [](\A i \in DOMAIN file_results :
             (/\ file_results[i].status = "generated"
              /\ file_results[i].template_asset_id \notin DOMAIN file_overrides_by_file)
                 => /\ \A t \in DOMAIN file_results[i].effective :
                          file_results[i].effective[t] # FileOverrideValue
                    /\ file_results[i].effective =
                           build_effective_map(base_values, sources, global_overrides,
                                               EmptyDict))
    /\ [](\A t \in Tokens : db[t].value # FileOverrideValue)
    /\ [][epc = "loop" => (base_values' = base_values /\ sources' = sources
                           /\ (epc' # "raised_entry" => db' = db))]_vars

\* a run rendered the output the override is keyed to with the override, and
\* another output without it
C27_Witness ==
    /\ epc = "done"
    /\ \E i, j \in DOMAIN file_results :
          /\ file_results[i].status = "generated"
          /\ file_results[i].template_asset_id = "t1"
          /\ "SCOPE" \in DOMAIN file_results[i].effective
          /\ file_results[i].effective["SCOPE"] = FileOverrideValue
          /\ file_results[j].status = "generated"
          /\ file_results[j].template_asset_id = "t2"
          /\ "SCOPE" \in DOMAIN file_results[j].effective
          /\ file_results[j].effective["SCOPE"] # FileOverrideValue

----------------------------------------------------------------------------
(* generation/services/execution.py line 212: the path an output is written to *)

\* settings.RAG_TENANT_ROOT / manual.tenant_id / "manuals" / str(manual.id),
\* as the segments below the file system root
ManualDir == <<"tenants", "tenant", "manuals", "manual">>

\* pathlib: base / rel, where an absolute rel (first segment "/") replaces base
join_path(base, rel) ==
    IF rel # <<>> /\ rel[1] = "/" THEN Tail(rel) ELSE base \o rel

\* Path.resolve() on the segments: "." is dropped and ".." leaves the
\* directory reached so far (the root is its own parent)
RECURSIVE resolve_path(_, _)
resolve_path(done, rest) ==
    IF rest = <<>> THEN done
    ELSE IF Head(rest) = "." THEN resolve_path(done, Tail(rest))
    ELSE IF Head(rest) = ".."
         THEN resolve_path(IF done = <<>> THEN <<>> ELSE SubSeq(done, 1, Len(done) - 1),
                           Tail(rest))
    ELSE resolve_path(Append(done, Head(rest)), Tail(rest))

\* line 212: output_path
output_path(output_rel_path) == resolve_path(<<>>, join_path(ManualDir, output_rel_path))

\* the path lies in the directory
IsInside(path, dir) == Len(path) > Len(dir) /\ SubSeq(path, 1, Len(dir)) = dir

\* C28: every output file the run writes lies inside the storage directory of
\* the manual, whatever output_rel_path its plan entry carries.
C28_OutputsInsideManualDir ==
    \A i \in DOMAIN file_results :
        file_results[i].status = "generated" =>
            IsInside(output_path(file_results[i].output_rel_path), ManualDir)

----------------------------------------------------------------------------
(* Two concurrent executions of resolve_required_variables for one manual.
   Each runs inside the transaction of execute_generation (execution.py:
   @transaction.atomic) on PostgreSQL at READ COMMITTED: the rows it reads are
   the committed ones, the row update_or_create writes stays locked until the
   transaction ends, and an upsert of a token the other execution wrote and
   has not committed waits for that transaction to end. *)

\* what a concurrent execution leaves alone
beside_race == <<rpc, required_tokens, customer_profile, human_overrides, keys,
                 existing, ri, values, source_by_token, steps, db0, mvars, pvars,
                 evars, cvars, hvars, avars, qvars, dvars, ivars, kvars, tvars>>

Other(r) == CHOOSE q \in Execs : q # r

RaceReqLists ==
    { <<"COMPANY_NAME">>, <<"COMPANY_NAME", "SCOPE">>, <<"SCOPE", "COMPANY_NAME">> }

RaceProfiles == { EmptyDict, ("COMPANY_NAME" :> <<"p">>) }

RaceOverrides == { EmptyDict, ("COMPANY_NAME" :> <<"o">>) }

\* SCOPE has a schema default in each; COMPANY_NAME has one, or is left to
\* the AI step
RaceSchemas ==
    { ("SCOPE" :> [default_value |-> <<"d">>, generation_policy |-> DETERMINISTIC])
      @@ ("COMPANY_NAME" :> k) :
        k \in { [default_value |-> <<"d">>, generation_policy |-> DETERMINISTIC],
                [default_value |-> None, generation_policy |-> AI_INFER] } }

\* the pass decides from the row as it is now
current_row(frame, rows, token) == GetRow(rows, token)

\* line 149: existing_value = existing.get(token), the dict read at line 140
snapshot_row(frame, rows, token) == GetRow(frame.existing, token)

\* lines 148-258 for the token the frame is at
race_outcome(frame, rows, reply) ==
    LET token == frame.required_tokens[frame.i + 1]
    IN  resolve_token(token, snapshot_row(frame, rows, token), frame.customer_profile,
                      frame.human_overrides, GetKey(schema, token), reply)

\* the outcomes the next pass of r may have
NextOutcomes(r) == {race_outcome(runs[r], db, reply) : reply \in AiReplies}

\* the upsert of outcome o by r has to wait: the other execution wrote the
\* row of the token and has not ended its transaction
MustWait(r, o) == o.write # NoRow /\ o.token \in DOMAIN runs[Other(r)].writes

InPass(r) == runs[r].pc = "loop" /\ runs[r].i < Len(runs[r].required_tokens)

\* each execution waits for a row the other holds
Deadlocked ==
    \A r \in Execs : InPass(r) /\ \E o \in NextOutcomes(r) : MustWait(r, o)

\* the rows with the writes of a transaction applied
committed_rows(rows, writes) ==
    [t \in Tokens |-> IF t \in DOMAIN writes THEN writes[t] ELSE rows[t]]

InitRace ==
    /\ GenerationIdle
    /\ SplitIdle /\ ReplaceIdle /\ ArchiveIdle /\ MergeRowsIdle /\ IndexIdle
    /\ IngestIdle /\ ChatIdle /\ TaskIdle
    /\ runs = [r \in Execs |-> IdleFrame]
    /\ write_log = <<>>
    /\ schema \in RaceSchemas
    /\ round_db0 = [t \in Tokens |-> NoRow]

\* lines 128-146 in the transaction of an execution: keys and existing are
\* read from the committed rows
RaceCall(r) ==
    /\ runs[r].pc = "idle"
    /\ \E req \in RaceReqLists, prof \in RaceProfiles, ovr \in RaceOverrides :
          runs' = [runs EXCEPT ![r] =
                      [pc |-> "loop", required_tokens |-> req,
                       customer_profile |-> prof, human_overrides |-> ovr,
                       existing |-> existing_rows(db, req), i |-> 0,
                       writes |-> EmptyDict, values |-> EmptyDict]]
    /\ UNCHANGED <<db, write_log, schema, round_db0, beside_race>>

\* lines 148-258: one pass of the loop of r; its upsert goes to the rows of
\* its transaction
RacePass(r) ==
    /\ InPass(r)
    /\ \E o \in NextOutcomes(r) :
          /\ ~MustWait(r, o)
          /\ runs' = [runs EXCEPT
                ![r].writes = IF o.write = NoRow THEN @ ELSE Put(@, o.token, o.write),
                ![r].values = values_after(@, o),
                ![r].i = @ + 1,
                ![r].pc = IF runs[r].i + 1 = Len(runs[r].required_tokens)
                          THEN "returned" ELSE "loop"]
          /\ write_log' = Append(write_log, [run |-> r, outcome |-> o])
    /\ UNCHANGED <<db, schema, round_db0, beside_race>>

\* execute_generation returns: transaction.atomic commits the rows
RaceCommit(r) ==
    /\ runs[r].pc = "returned"
    /\ db' = committed_rows(db, runs[r].writes)
    /\ runs' = [runs EXCEPT ![r].pc = "committed", ![r].writes = EmptyDict]
    /\ UNCHANGED <<write_log, schema, round_db0, beside_race>>

\* the transaction ends without its rows: the database ends a deadlock by
\* failing one of the two, or execute_generation raises after the call returned
RaceAbort(r) ==
    /\ \/ runs[r].pc = "returned"
       \/ Deadlocked
    /\ runs' = [runs EXCEPT ![r].pc = "aborted", ![r].writes = EmptyDict]
    /\ UNCHANGED <<db, write_log, schema, round_db0, beside_race>>

RaceOver == \A r \in Execs : runs[r].pc \in {"committed", "aborted"}

\* both executions are over; the next two start from the rows they left
RaceAgain ==
    /\ RaceOver
    /\ runs' = [r \in Execs |-> IdleFrame]
    /\ write_log' = <<>>
    /\ round_db0' = db
    /\ UNCHANGED <<db, schema, beside_race>>

NextRace ==
    \/ \E r \in Execs : RaceCall(r)
    \/ \E r \in Execs : RacePass(r)
    \/ \E r \in Execs : RaceCommit(r)
    \/ \E r \in Execs : RaceAbort(r)
    \/ RaceAgain

SpecRace == InitRace /\ [][NextRace]_vars

\* the passes of the log that wrote a row of token t in a transaction that
\* committed
CommittedWrites(t) ==
    {k \in DOMAIN write_log :
        /\ write_log[k].outcome.token = t
        /\ write_log[k].outcome.write # NoRow
        /\ runs[write_log[k].run].pc = "committed"}

LastOf(S) == CHOOSE k \in S : \A j \in S : j <= k

\* C22: two interleaved executions write the row of a token with no guard.
\* Every pass decides from the rows its execution read at its start, whatever
\* the other has stored since; no token is held by both at once; and when both
\* are over, the row of each token is the one written last by an execution
\* that committed (the row from before, if there is none).
C22_LastWriterWins ==
    /\ [](\A k \in DOMAIN write_log :
            LET r == write_log[k].run
                o == write_log[k].outcome
            IN  \E reply \in AiReplies :
                    o = resolve_token(o.token, GetRow(runs[r].existing, o.token),
                                      runs[r].customer_profile,
                                      runs[r].human_overrides,
                                      GetKey(schema, o.token), reply))
    /\ [](DOMAIN runs["A"].writes \cap DOMAIN runs["B"].writes = {})
    /\ [](RaceOver =>
            \A t \in Tokens :
                db[t] = IF CommittedWrites(t) = {} THEN round_db0[t]
                        ELSE write_log[LastOf(CommittedWrites(t))].outcome.write)

\* both executions committed; one stored a customer_input value for a token
\* after the other had read the token, and the other then overwrote it with a
\* value of lower precedence, which is the row left
C22_Witness ==
    /\ \A r \in Execs : runs[r].pc = "committed"
    /\ \E i, j \in DOMAIN write_log :
          LET a == write_log[i].outcome
              b == write_log[j].outcome
          IN  /\ i < j
              /\ write_log[i].run # write_log[j].run
              /\ a.token = b.token
              /\ a.write # NoRow /\ a.write.source = CUSTOMER_INPUT
              /\ b.write # NoRow
              /\ b.write.source \in {HUMAN_OVERRIDE, DEFAULT, AI_INFERRED}
              /\ db[b.token] = b.write

----------------------------------------------------------------------------
(* generation/tasks.py: generate_manual_task, one RagRun per call *)

\* the report execute_generation returned; storable: PostgreSQL accepts it as
\* the jsonb value of RagRun.metrics.  The report holds the plan, which is the
\* whole object of the planning completion (_validate_plan returns payload),
\* and json.loads takes NaN, Infinity and "\u0000", which jsonb refuses.
Report(nfailed, ngenerated, storable) ==
    [raised |-> FALSE, status |-> classify_status(nfailed, ngenerated),
     generated |-> ngenerated, failed |-> nfailed, storable |-> storable]

\* execute_generation raised
Raised == [raised |-> TRUE, status |-> "NONE", generated |-> 0, failed |-> 0,
           storable |-> TRUE]

\* run_logger.py: mark_run_started
mark_run_started(table, id) == [table EXCEPT ![id].status = "RUNNING"]

\* run_logger.py: mark_run_succeeded
mark_run_succeeded(table, id, metrics) ==
    [table EXCEPT ![id] = [status |-> "SUCCEEDED", metrics |-> metrics]]

\* run_logger.py: mark_run_failed
mark_run_failed(table, id, metrics) ==
    [table EXCEPT ![id] = [status |-> "FAILED", metrics |-> metrics]]

beside_task == <<gvars, cvars, hvars, avars, qvars, dvars, ivars, kvars, wvars>>

InitTask ==
    /\ GenerationIdle
    /\ SplitIdle /\ ReplaceIdle /\ ArchiveIdle /\ MergeRowsIdle /\ IndexIdle
    /\ IngestIdle /\ ChatIdle /\ RaceIdle
    /\ TaskIdle

\* lines 55-60
TaskStart ==
    /\ tpc = "idle"
    /\ task_run < MaxRuns
    /\ task_run' = task_run + 1
    /\ run_table' = mark_run_started(run_table, task_run + 1)
    /\ manual_status' = "IN_PROGRESS"
    /\ task_outcome' = NoOutcome
    /\ task_raised' = FALSE
    /\ tpc' = "executing"
    /\ UNCHANGED beside_task

\* lines 63-71: execute_generation returns its report
TaskExecuteReturn ==
    /\ tpc = "executing"
    /\ \E nfailed \in 0..MaxOutputs, ngenerated \in 0..MaxOutputs,
          storable \in BOOLEAN :
          task_outcome' = Report(nfailed, ngenerated, storable)
    /\ tpc' = "reported"
    /\ UNCHANGED <<beside_task, run_table, manual_status, task_run, task_raised>>

\* line 63: execute_generation raises
TaskExecuteRaise ==
    /\ tpc = "executing"
    /\ task_outcome' = Raised
    /\ tpc' = "handling"
    /\ UNCHANGED <<beside_task, run_table, manual_status, task_run, task_raised>>

\* lines 72-75 and 80
TaskMarkFailed ==
    /\ tpc = "reported"
    /\ task_outcome.status = "FAILED"
    /\ task_outcome.storable
    /\ run_table' = mark_run_failed(run_table, task_run, "report")
    /\ manual_status' = "FAILED"
    /\ tpc' = "done"
    /\ UNCHANGED <<beside_task, task_run, task_outcome, task_raised>>

\* lines 76-80
TaskMarkSucceeded ==
    /\ tpc = "reported"
    /\ task_outcome.status # "FAILED"
    /\ task_outcome.storable
    /\ run_table' = mark_run_succeeded(run_table, task_run, "report")
    /\ manual_status' = "READY"
    /\ tpc' = "done"
    /\ UNCHANGED <<beside_task, task_run, task_outcome, task_raised>>

\* lines 73 and 77: run.save raises on metrics the column refuses; the row
\* of the run is not changed and the except of line 81 takes over
TaskMarkRaise ==
    /\ tpc = "reported"
    /\ ~task_outcome.storable
    /\ tpc' = "handling"
    /\ UNCHANGED <<beside_task, run_table, manual_status, task_run, task_outcome,
                   task_raised>>

\* lines 81-86
TaskHandle ==
    /\ tpc = "handling"
    /\ run_table' = mark_run_failed(run_table, task_run, "error")
    /\ manual_status' = "FAILED"
    /\ task_raised' = TRUE
    /\ tpc' = "done"
    /\ UNCHANGED <<beside_task, task_run, task_outcome>>

\* the call is over; the next one gets the next run
TaskOver ==
    /\ tpc = "done"
    /\ task_run < MaxRuns
    /\ tpc' = "idle"
    /\ UNCHANGED <<beside_task, run_table, manual_status, task_run, task_outcome,
                   task_raised>>

NextTask ==
    \/ TaskStart \/ TaskExecuteReturn \/ TaskExecuteRaise \/ TaskMarkFailed
    \/ TaskMarkSucceeded \/ TaskMarkRaise \/ TaskHandle \/ TaskOver

SpecTask == InitTask /\ [][NextTask]_vars

\* C25: a call that started its run ends with the run SUCCEEDED or FAILED,
\* never RUNNING: FAILED, with the manual FAILED, exactly when the report
\* status is FAILED or execute_generation raised; otherwise SUCCEEDED with the
\* manual READY (a PARTIAL report too).
C25_RunEndsTerminal ==
    tpc = "done" =>
        LET run == run_table[task_run]
            failure == task_outcome.raised \/ task_outcome.status = "FAILED"
        IN  /\ run.status \in {"SUCCEEDED", "FAILED"}
            /\ run.status = "FAILED" <=> failure
            /\ run.status = "FAILED" => manual_status = "FAILED"
            /\ run.status = "SUCCEEDED" => manual_status = "READY"

====
